---- MODULE Spec2Model ----
(***************************************************************************)
(* A model of reader's sqlite3 utilities (src/src/reader/_sqlite_utils.py) *)
(* and of what is built on them.                                           *)
(*                                                                         *)
(* Part 1, specification Spec: HeavyMigration.migrate() running inside    *)
(* foreign_keys_off() and                                                  *)
(* ddl_transaction().  One action per step of the code; the callbacks      *)
(* create(db) and migrations[v](db) are arbitrary code, so their effect is *)
(* drawn from a small set each time they run.                              *)
(*                                                                         *)
(* Modelling assumptions (engine behaviour the source relies on):          *)
(*  - user_version, application_id, schema and data are transactional:     *)
(*    ROLLBACK restores them to what they were at BEGIN;                    *)
(*  - PRAGMA foreign_keys has no effect inside a transaction;              *)
(*  - the statements of the protocol itself (PRAGMA, BEGIN, COMMIT,        *)
(*    ROLLBACK) do not fail, and migrate() is entered outside a            *)
(*    transaction (as from setup_db());                                    *)
(*  - callbacks change schema and data and may set application_id; they    *)
(*    leave user_version to the framework and do not end the transaction.  *)
(*                                                                         *)
(* Part 2, specification FactorySpec: LocalConnectionFactory used by the   *)
(* creating thread and by other threads.  Every thread has its own value   *)
(* of the ContextVar _local (a new thread starts with an empty context);   *)
(* a method touches only the caller's value, the factory's fixed fields    *)
(* and the caller's connection, so a call is one step.                     *)
(*                                                                         *)
(* Part 3, specification StoreSpec: the Storage engine's feeds, entries    *)
(* and feed_metadata tables and the methods that write and read them.      *)
(* reader/core/storage.py is not among the sources at hand: the methods    *)
(* are modelled from the written specification and from what               *)
(* src/tests/test_storage.py shows of them.  A method is one transaction,  *)
(* so a call is one step.  UpdateSpec has the calls of a fetch,           *)
(* MutationSpec the calls that fail on a row that is not stored.           *)
(*                                                                         *)
(* Part 4, specification WrapSpec: a with block under wrap_exceptions and  *)
(* the constructor of Storage, for every kind of exception raised inside.  *)
(* An exception is a record of its class, its text, its __cause__ and      *)
(* which object it is.                                                     *)
(*                                                                         *)
(* Part 5, specification LockedSpec: the calls on the store while another  *)
(* connection is inside BEGIN EXCLUSIVE, with busy_timeout 0 (so a locked  *)
(* statement fails at once) and the journal mode setup_db may set.         *)
(*                                                                         *)
(* Part 6, specifications PageSpec and DrainSpec: the generator            *)
(* join_paginated_iter (src/src/reader/_utils.py) and its consumer.  One   *)
(* next() is one step: the generator runs to its next yield or its end.    *)
(* The page function draws from the things 1..source in their order,       *)
(* thing i having the cursor i.                                            *)
(*                                                                         *)
(* Part 7, specification SetupSpec: setup_db(), from its two requirement   *)
(* checks to the pragmas and the call of migrate(), for installed versions *)
(* on both sides of the minimum and for required functions that are there, *)
(* missing, without a test statement, or whose test fails otherwise.       *)
(*                                                                         *)
(* Part 8, specification FancySpec: an exception built on                  *)
(* FancyExceptionMixin, on which str(), raise ... from and a pickle round  *)
(* trip are called in any order.                                           *)
(*                                                                         *)
(* Part 9, specifications PoolSpec and PoolLiveSpec: make_pool_map and the *)
(* generator of wrap_map (src/src/reader/_utils.py) with the threads of    *)
(* multiprocessing.dummy.Pool.  A step is one statement of the generator,  *)
(* or one turn of a pool thread; PoolLiveSpec lets every thread that can   *)
(* run do so in the end.                                                   *)
(***************************************************************************)
EXTENDS Integers, Sequences, FiniteSets, TLC

\* ------------------------------------------------------------------ bounds

\* The largest target version (HeavyMigration.version) tried.
MaxTarget == 3

\* The largest application id tried (configured and stored).
MaxId == 2

\* How many times migrate() is called on the same database.
MaxCalls == 2

\* Stored versions go one past the largest target (a too-new database).
MaxVersion == MaxTarget + 1

\* The number of threads besides the one that creates the factory.
MaxThreads == 1

\* How deep a thread nests the factory's with blocks.
MaxDepth == 2

\* How many rows the entries and feed_metadata tables hold together.
MaxRows == 2

\* How many pairs get_entries_for_update is asked about.
MaxPairs == 2

\* The engine's limit on the variables of one statement.
MaxVariableNumber == 3

\* ------------------------------------------------------------------ state

VARIABLES
    db,               \* the database file: user_version, application_id, tables, fk_violations
    foreign_keys,     \* the connection's PRAGMA foreign_keys
    in_transaction,   \* db.in_transaction
    isolation_level,  \* db.isolation_level ("None" for Python's None)
    journal,          \* what ROLLBACK restores: the database as of BEGIN
    self,             \* the HeavyMigration: version, id, migrations (the keys present)
    pc,               \* where migrate() is
    id,               \* migrate's local id
    version,          \* migrate's local version
    from_version,     \* the loop variable
    saved_fk,         \* foreign_keys_off's local foreign_keys
    saved_isolation,  \* ddl_transaction's local isolation_level
    exc,              \* the exception in flight
    result,           \* how the last call ended: NoExc or the exception raised
    calls,            \* the number of migrate() calls started
    entry,            \* history: the state when the current call started
    trace,            \* history: what the current call did, in order
    path,             \* LocalConnectionFactory.path
    conns,            \* the connections made by sqlite3.connect(): who made each, is it open
    local,            \* the ContextVar _local: each thread's connection (0: no value)
    main,             \* LocalConnectionFactory._main (0: before __init__)
    depth,            \* how many with blocks of the factory each thread is inside
    last,             \* history: the last call on the factory and how it ended
    feeds,            \* the feeds table: the urls stored
    last_updated,     \* the feeds table: each stored feed's last_updated ("None" for null)
    entries,          \* the entries table: rows (feed, id, updated, read, important)
    metadata,         \* the feed_metadata table: rows (feed, key, value)
    called,           \* history: the last call on the store and how it ended
    block,            \* the with block under way: the handler around it and how it was set up
    raised,           \* the exception raised inside the block (NoObject: none)
    propagated,       \* the exception that leaves the block (NoObject: none)
    exclusive,        \* another connection is inside BEGIN EXCLUSIVE
    journal_mode,     \* the journal mode of the database file ("delete" or "wal")
    source,           \* the number of things the page function draws from, in their order 1..source
    chunk_size,       \* join_paginated_iter: chunk_size
    gen,              \* where the generator is: "created", "suspended" at a yield, "done"
    last_cursor,      \* join_paginated_iter: last (NoneCursor for None)
    things,           \* join_paginated_iter: the things of the page in hand not yielded yet
    things_len,       \* the number of things the page in hand came with
    cursor_open,      \* the statement of a page is open: it has rows left to give
    yielded,          \* history: the things yielded, in order
    page_calls,       \* history: the calls of the page function, (chunk_size, last) each
    writer,           \* history: how the last write of another connection ended, and after how many things
    sqlite_version,   \* what SELECT sqlite_version() returns: the parts between the dots, each its digits
    minimum_sqlite_version,\* setup_db: minimum_sqlite_version
    required_sqlite_functions,\* setup_db: required_sqlite_functions
    probes,           \* what the engine does with the test statement of each function
    setup_wal,        \* setup_db: wal_enabled ("None", "True", "False")
    setup_pc,         \* where setup_db() is
    setup_exc,        \* what setup_db() raised
    fancy,            \* the exception e: args as string, instance __dict__, __cause__
    unpickled,        \* pickle.loads(pickle.dumps(e)), once made
    rendered,         \* the last str() returned: of which object, the text
    pickled_str,      \* str(e) just before the round trip
    iterable,         \* the source iterable gives the items 1..iterable
    workers,          \* make_pool_map(workers)
    raises_on,        \* the item func raises for, 0 for none
    patience,         \* the consumer stops after so many results
    pulled,           \* how many items next(iterable, sentinel) has given
    queue,            \* the hand-off queue; 0 is the sentinel
    wrapper_pc,       \* where the wrapper generator is
    filled,           \* how many times the first loop has put
    rv,               \* the result the generator holds
    taskqueue,        \* the pool taskqueue: "job", "None"
    task_handler,     \* where the task handler thread is
    made,             \* how many tasks the task generator has given
    inqueue,          \* the pool inqueue; 0 is None
    worker,           \* per worker thread: 0 idle, the item in func, -1 exited
    items,            \* the result iterator _items: <<success, item>>
    index,            \* the result iterator _index
    length,           \* the result iterator _length, -1 for None
    cached,           \* the job is in the pool cache
    pool_state,       \* the pool _state
    worker_handler,   \* the worker handler thread
    context,          \* where the with block of make_pool_map is
    pullers,          \* the threads that have called next() on the source
    applied,          \* how many times func was called with each item
    yields            \* how many times each result was yielded

migrationvars == <<db, foreign_keys, in_transaction, isolation_level, journal, self, pc,
                   id, version, from_version, saved_fk, saved_isolation, exc, result,
                   calls, entry, trace>>

factoryvars == <<path, conns, local, main, depth, last>>

storevars == <<feeds, last_updated, entries, metadata, called>>

wrapvars == <<block, raised, propagated>>

lockvars == <<exclusive, journal_mode>>

pagevars == <<source, chunk_size, gen, last_cursor, things, things_len, cursor_open, yielded,
             page_calls, writer>>

setupvars == <<sqlite_version, minimum_sqlite_version, required_sqlite_functions, probes,
               setup_wal, setup_pc, setup_exc>>

fancyvars == <<fancy, unpickled, rendered, pickled_str>>

poolvars == <<iterable, workers, raises_on, patience, pulled, queue, wrapper_pc, filled, rv,
              taskqueue, task_handler, made, inqueue, worker, items, index, length, cached,
              pool_state, worker_handler, context, pullers, applied, yields>>

vars == <<migrationvars, factoryvars, storevars, wrapvars, lockvars, pagevars, setupvars,
          fancyvars, poolvars>>

\* What the steps of migrate() leave alone.
nonmigration == <<factoryvars, storevars, wrapvars, lockvars, pagevars, setupvars, fancyvars,
                 poolvars>>

\* What the calls on the factory leave alone.
nonfactory == <<migrationvars, storevars, wrapvars, lockvars, pagevars, setupvars, fancyvars,
                poolvars>>

\* What the calls on the store leave alone.
nonstore == <<migrationvars, factoryvars, wrapvars, lockvars, pagevars, setupvars, fancyvars,
              poolvars>>

\* What a with block under wrap_exceptions leaves alone.
nonwrap == <<migrationvars, factoryvars, storevars, lockvars, pagevars, setupvars, fancyvars,
             poolvars>>

\* What the other connection and the journal mode leave alone.
nonlock == <<migrationvars, factoryvars, storevars, wrapvars, pagevars, setupvars, fancyvars,
             poolvars>>

\* What the generator and its consumer leave alone.
nonpage == <<migrationvars, factoryvars, storevars, wrapvars, lockvars, setupvars, fancyvars,
             poolvars>>

\* What the requirement checks of setup_db() leave alone.
nonsetup == <<migrationvars, factoryvars, storevars, wrapvars, lockvars, pagevars, fancyvars,
              poolvars>>

\* What str(), raise from and pickle on an exception leave alone.
nonfancy == <<migrationvars, factoryvars, storevars, wrapvars, lockvars, pagevars, setupvars,
              poolvars>>

\* What the threads of the pool and the consumer of the map leave alone.
nonpool == <<migrationvars, factoryvars, storevars, wrapvars, lockvars, pagevars, setupvars,
             fancyvars>>

dbvars == <<db, foreign_keys, in_transaction, isolation_level, journal>>

\* A local that was never assigned.
Unbound == 0 - 2

\* ------------------------------------------------------------- exceptions

NoExc == [type |-> "None", msg |-> <<>>]

\* Decimal and hexadecimal text of a small number (str(n), f"{n:x}").
Dec(n) == IF n < 0 THEN "-" ELSE <<"0", "1", "2", "3", "4", "5", "6", "7", "8", "9">>[n + 1]

Hex(n) == <<"0", "1", "2", "3", "4", "5", "6", "7", "8", "9", "a", "b", "c", "d", "e", "f">>[n + 1]

display_name(type) ==
    CASE type = "DBError" -> "database error"
      [] type = "SchemaVersionError" -> "schema version error"
      [] type = "IntegrityError" -> "integrity error"
      [] type = "RequirementError" -> "database requirement error"
      [] type = "IdError" -> "application id error"
      [] type = "UsageError" -> "usage error"
      [] OTHER -> ""

\* DBError.__str__: "{display_name}: {message}"; other exceptions print their message.
Str(e) ==
    IF display_name(e.type) = "" THEN e.msg
    ELSE <<display_name(e.type), ": ">> \o e.msg

Raise(type, msg) == [type |-> type, msg |-> msg]

\* ---------------------------------------------------------------- pragmas

get_int_pragma(pragma) == db[pragma]

\* set_int_pragma: the value it rejects with ValueError.
set_int_pragma_rejects(value) == value < 0

set_int_pragma(d, pragma, value) == [d EXCEPT ![pragma] = value]

table_count(d) == Cardinality(d.tables)

\* PRAGMA foreign_keys = v: no effect in the middle of a transaction.
SetForeignKeys(v) == IF in_transaction THEN foreign_keys ELSE v

\* One entry of the history: the step, the migration key (0 when there is none), and
\* at that moment the stored version, the transaction state and whether the data
\* holds a foreign-key violation.
Event(op, key) ==
    [op |-> op, key |-> key, ver |-> db.user_version, txn |-> in_transaction,
     violations |-> db.fk_violations]

\* The statement foreign_keys_off() builds: f"PRAGMA foreign_keys = {'ON' if v else 'OFF'};"
ForeignKeysPragma(v) == IF v THEN "PRAGMA foreign_keys = ON" ELSE "PRAGMA foreign_keys = OFF"

\* ---------------------------------------------------------------- threads

\* The thread that creates the factory, and all threads.
Creator == 0

Threads == 0..MaxThreads

\* No call on the factory yet.
NoCall ==
    [op |-> "none", thread |-> Creator, ret |-> 0, exc |-> NoExc, scoped |-> FALSE,
     conn |-> 0, was_open |-> FALSE, hook_conn |-> 0, hook_open |-> FALSE,
     hook_exc |-> NoExc, body_raised |-> FALSE, connected |-> FALSE]

\* No factory: the state of the factory's variables while migrate() is looked at.
FactoryIdle ==
    /\ path = ""
    /\ conns = <<>>
    /\ local = [t \in Threads |-> 0]
    /\ main = 0
    /\ depth = [t \in Threads |-> 0]
    /\ last = NoCall

\* ------------------------------------------------------------------ store

\* The feeds, entries, metadata keys and values tried (the names of the tests).
FeedUrls == {"feed", "one"}

EntryIds == {"one", "two"}

MetadataKeys == {"key", "second"}

MetadataValues == {"value", "new-value"}

\* Entry.updated, as dates.
Updateds == {"2010-01-01", "2010-01-02"}

\* The row of a new entry: read and important start as false.
NewEntry(feed, entry_id, updated) ==
    [feed |-> feed, id |-> entry_id, updated |-> updated, read |-> FALSE, important |-> FALSE]

\* SELECT ... FROM entries WHERE feed = ? AND id = ?
EntryRows(feed, entry_id) == {r \in entries : r.feed = feed /\ r.id = entry_id}

\* SELECT ... FROM feed_metadata WHERE feed = ? AND key = ?
MetadataRows(feed, key) == {r \in metadata : r.feed = feed /\ r.key = key}

\* The rows stored, over the two tables that hang on feeds.
RowCount == Cardinality(entries) + Cardinality(metadata)

\* The record of a call of a Storage method and of its outcome; rows is the
\* number of rows stored when it was called.
StorageCall(op, feed, name, e) ==
    [op |-> op, feed |-> feed, name |-> name, exc |-> e, rows |-> RowCount,
     pairs |-> <<>>, ret |-> <<>>, fallback |-> FALSE]

\* No Storage method called yet.
NoStorageCall ==
    [op |-> "none", feed |-> "", name |-> "", exc |-> NoExc, rows |-> 0,
     pairs |-> <<>>, ret |-> <<>>, fallback |-> FALSE]

\* An empty store: the state of the store's variables while the rest is looked at.
StoreIdle ==
    /\ feeds = {}
    /\ last_updated = [url \in {} |-> "None"]
    /\ entries = {}
    /\ metadata = {}
    /\ called = NoStorageCall

\* ------------------------------------------------------------------- Init

Versions == 0..MaxVersion

Ids == 0..MaxId

\* The effects a callback may have besides changing the schema: it returns,
\* raises, leaves an orphan row, or stamps an application id.
Effects == {"ok", "raise", "orphan"} \cup {Dec(i) : i \in 1..MaxId}

\* No with block yet: the state of wrap_exceptions' variables while the rest is looked at.
WrapIdle ==
    /\ block = [op |-> "none", exc_type |-> "", message |-> <<>>]
    /\ raised = [type |-> "None", msg |-> <<>>, cause |-> NoExc, obj |-> "none"]
    /\ propagated = raised

\* No other connection, a database file just made: the state of the lock while
\* the rest is looked at.
LockIdle ==
    /\ exclusive = FALSE
    /\ journal_mode = "delete"

\* No generator: the state of join_paginated_iter's variables while the rest is
\* looked at.
PageIdle ==
    /\ source = 0
    /\ chunk_size = 0
    /\ gen = "created"
    /\ last_cursor = 0        \* None
    /\ things = <<>>
    /\ things_len = 0
    /\ cursor_open = FALSE
    /\ yielded = <<>>
    /\ page_calls = <<>>
    /\ writer = [outcome |-> "none", after |-> 0]

\* No setup_db(): the state of its variables while the rest is looked at.
SetupIdle ==
    /\ sqlite_version = <<<<3>>, <<3, 1>>, <<1>>>>
    /\ minimum_sqlite_version = <<3>>
    /\ required_sqlite_functions = <<>>
    /\ probes = [name \in {} |-> "ok"]
    /\ setup_wal = "None"
    /\ setup_pc = "idle"
    /\ setup_exc = NoExc

\* No exception built on FancyExceptionMixin is around.
FancyIdle ==
    /\ fancy = [args |-> <<"">>, dict |-> <<>>, cause |-> <<>>]
    /\ unpickled = <<>>
    /\ rendered = [of |-> "none", text |-> <<>>]
    /\ pickled_str = <<>>

\* No pool is around.
PoolIdle ==
    /\ iterable = 0
    /\ workers = 1
    /\ raises_on = 0
    /\ patience = 0
    /\ pulled = 0
    /\ queue = <<>>
    /\ wrapper_pc = "created"
    /\ filled = 0
    /\ rv = 0
    /\ taskqueue = <<>>
    /\ task_handler = "taskqueue"
    /\ made = 0
    /\ inqueue = <<>>
    /\ worker = <<>>
    /\ items = <<>>
    /\ index = 0
    /\ length = -1
    /\ cached = FALSE
    /\ pool_state = "INIT"
    /\ worker_handler = "alive"
    /\ context = "outside"
    /\ pullers = {}
    /\ applied = <<>>
    /\ yields = <<>>

Init ==
    /\ db \in {d \in [user_version : Versions, application_id : Ids,
                      tables : {{}, {"legacy"}}, fk_violations : BOOLEAN] :
                 d.fk_violations => d.tables # {}}
    /\ foreign_keys \in BOOLEAN
    /\ in_transaction = FALSE
    /\ isolation_level = ""
    /\ journal = db
    /\ self \in [version : 1..MaxTarget, id : Ids,
                 migrations : SUBSET (1..(MaxTarget - 1))]
    /\ pc = "idle"
    /\ id = Unbound
    /\ version = Unbound
    /\ from_version = Unbound
    /\ saved_fk = FALSE
    /\ saved_isolation = ""
    /\ exc = NoExc
    /\ result = NoExc
    /\ calls = 0
    /\ entry = [db |-> db, foreign_keys |-> foreign_keys,
                isolation_level |-> isolation_level, calls |-> calls, result |-> result]
    /\ trace = <<>>
    /\ FactoryIdle
    /\ StoreIdle
    /\ WrapIdle
    /\ LockIdle
    /\ PageIdle
    /\ SetupIdle
    /\ FancyIdle
    /\ PoolIdle

\* ---------------------------------------------------------------- migrate

\* A call of HeavyMigration.migrate(db), on a connection outside a transaction.
Migrate ==
    /\ pc \in {"idle", "done"}
    /\ calls < MaxCalls
    /\ ~in_transaction
    /\ calls' = calls + 1
    /\ pc' = "foreign_keys_off"
    /\ id' = Unbound
    /\ version' = Unbound
    /\ from_version' = Unbound
    /\ exc' = NoExc
    /\ entry' = [db |-> db, foreign_keys |-> foreign_keys,
                 isolation_level |-> isolation_level, calls |-> calls, result |-> result]
    /\ trace' = <<>>
    /\ UNCHANGED <<dbvars, self, saved_fk, saved_isolation, result>>
    /\ UNCHANGED nonmigration

\* foreign_keys_off() up to its yield: the assert, the read, PRAGMA foreign_keys = OFF.
ForeignKeysOffEnter ==
    /\ pc = "foreign_keys_off"
    /\ ~in_transaction
    /\ saved_fk' = foreign_keys
    /\ foreign_keys' = SetForeignKeys(FALSE)
    /\ trace' = Append(trace, Event(ForeignKeysPragma(FALSE), 0))
    /\ pc' = "ddl_transaction"
    /\ UNCHANGED <<db, in_transaction, isolation_level, journal, self, id, version,
                   from_version, saved_isolation, exc, result, calls, entry>>
    /\ UNCHANGED nonmigration

\* ddl_transaction() up to its yield: isolation_level = None, BEGIN.
DdlTransactionEnter ==
    /\ pc = "ddl_transaction"
    /\ saved_isolation' = isolation_level
    /\ isolation_level' = "None"
    /\ in_transaction' = TRUE
    /\ journal' = db
    /\ trace' = Append(trace, Event("BEGIN", 0))
    /\ pc' = "check_id"
    /\ UNCHANGED <<db, foreign_keys, self, id, version, from_version, saved_fk, exc,
                   result, calls, entry>>
    /\ UNCHANGED nonmigration

\* A stored id that equals the configured one is let through (a dropped comparison).
InvalidId_Dropped(stored) == FALSE

\* if id and id != self.id
InvalidId(stored) == stored # 0 /\ stored # self.id

\* if self.id: id = get_id(db); if id and id != self.id: raise IdError.
CheckId ==
    /\ pc = "check_id"
    /\ IF self.id # 0
       THEN /\ id' = get_int_pragma("application_id")
            /\ IF InvalidId(id')
               THEN /\ exc' = Raise("IdError", <<"invalid id: 0x", Hex(id')>>)
                    /\ pc' = "ddl_exit"
               ELSE /\ exc' = exc
                    /\ pc' = "get_version"
       ELSE /\ id' = id
            /\ exc' = exc
            /\ pc' = "get_version"
    /\ UNCHANGED <<dbvars, self, version, from_version, saved_fk, saved_isolation,
                   result, calls, entry, trace>>
    /\ UNCHANGED nonmigration

\* version = self.get_version(db)
GetVersion ==
    /\ pc = "get_version"
    /\ version' = get_int_pragma("user_version")
    /\ pc' = "dispatch"
    /\ UNCHANGED <<dbvars, self, id, from_version, saved_fk, saved_isolation, exc,
                   result, calls, entry, trace>>
    /\ UNCHANGED nonmigration

\* The check left out: create runs over whatever is there.
HasTables_Unchecked(d) == FALSE

\* if table_count(db) != 0
HasTables(d) == table_count(d) # 0

\* if not version: the table_count() check before create.
VersionZero ==
    /\ pc = "dispatch"
    /\ version = 0
    /\ IF HasTables(db)
       THEN /\ exc' = Raise("DBError", <<"database with no version already has tables">>)
            /\ pc' = "ddl_exit"
       ELSE /\ exc' = exc
            /\ pc' = "create"
    /\ UNCHANGED <<dbvars, self, id, version, from_version, saved_fk, saved_isolation,
                   result, calls, entry, trace>>
    /\ UNCHANGED nonmigration

\* self.create(db); self.set_version(db, self.version); self.set_id(db, self.id); return
Create ==
    /\ pc = "create"
    /\ \E effect \in {"ok", "raise"} :
         LET created == [db EXCEPT !.tables = @ \cup {"schema"}]
             stamped == set_int_pragma(set_int_pragma(created, "user_version", self.version),
                                       "application_id", self.id)
         IN  /\ trace' = Append(trace, Event("create", 0))
             /\ IF effect = "raise"
                THEN /\ db' = created
                     /\ exc' = Raise("Exception", <<"create">>)
                ELSE IF set_int_pragma_rejects(self.version)
                THEN /\ db' = created
                     /\ exc' = Raise("ValueError", <<"user_version must be >=0">>)
                ELSE IF set_int_pragma_rejects(self.id)
                THEN /\ db' = set_int_pragma(created, "user_version", self.version)
                     /\ exc' = Raise("ValueError", <<"application_id must be >=0">>)
                ELSE /\ db' = stamped
                     /\ exc' = exc
    /\ pc' = "ddl_exit"
    /\ UNCHANGED <<foreign_keys, in_transaction, isolation_level, journal, self, id,
                   version, from_version, saved_fk, saved_isolation, result, calls, entry>>
    /\ UNCHANGED nonmigration

\* The missing-id check left out.
MissingId_Unchecked == FALSE

\* if self.id: if not id
MissingId == self.id # 0 /\ id = 0

\* if version == self.version: the missing-id check, then return.
VersionCurrent ==
    /\ pc = "dispatch"
    /\ version # 0
    /\ version = self.version
    /\ IF MissingId
       THEN exc' = Raise("IdError", <<"database with version has missing id">>)
       ELSE exc' = exc
    /\ pc' = "ddl_exit"
    /\ UNCHANGED <<dbvars, self, id, version, from_version, saved_fk, saved_isolation,
                   result, calls, entry, trace>>
    /\ UNCHANGED nonmigration

\* The message names the target instead of the stored version.
InvalidVersionError_Target(v) == Raise("SchemaVersionError", <<"invalid version: ", Dec(self.version)>>)

\* SchemaVersionError(f"invalid version: {version}")
InvalidVersionError(v) == Raise("SchemaVersionError", <<"invalid version: ", Dec(v)>>)

\* if version > self.version: raise SchemaVersionError.
VersionTooNew ==
    /\ pc = "dispatch"
    /\ version # 0
    /\ version # self.version
    /\ version > self.version
    /\ exc' = InvalidVersionError(version)
    /\ pc' = "ddl_exit"
    /\ UNCHANGED <<dbvars, self, id, version, from_version, saved_fk, saved_isolation,
                   result, calls, entry, trace>>
    /\ UNCHANGED nonmigration

\* version < self.version: enter the loop, for from_version in range(version, self.version).
LoopEnter ==
    /\ pc = "dispatch"
    /\ version # 0
    /\ version # self.version
    /\ ~(version > self.version)
    /\ from_version' = version
    /\ pc' = "loop"
    /\ UNCHANGED <<dbvars, self, id, version, saved_fk, saved_isolation, exc, result,
                   calls, entry, trace>>
    /\ UNCHANGED nonmigration

\* The lookup keyed by to_version (an off-by-one).
HasMigration_ToVersion(from) == (from + 1) \in self.migrations

\* migration = self.migrations.get(from_version); migration is not None
HasMigration(from) == from \in self.migrations

\* The version left for after the callback (and never set before it).
StepVersion_Late(d, to_version) == d

\* self.set_version(db, to_version), before migration(db)
StepVersion(d, to_version) == set_int_pragma(d, "user_version", to_version)

\* One iteration up to the callback: the lookup in self.migrations, set_version(to_version);
\* or the end of the range.
LoopStep ==
    /\ pc = "loop"
    /\ IF from_version >= self.version
       THEN /\ pc' = "final_id"
            /\ UNCHANGED <<db, exc>>
       ELSE LET to_version == from_version + 1
            IN  IF ~HasMigration(from_version)
                THEN /\ exc' = Raise("SchemaVersionError",
                                     <<"no migration from ", Dec(from_version), " to ",
                                       Dec(to_version), "; expected migrations for all versions later than ",
                                       Dec(version)>>)
                     /\ pc' = "ddl_exit"
                     /\ db' = db
                ELSE /\ db' = StepVersion(db, to_version)
                     /\ exc' = exc
                     /\ pc' = "migration"
    /\ UNCHANGED <<foreign_keys, in_transaction, isolation_level, journal, self, id,
                   version, from_version, saved_fk, saved_isolation, result, calls,
                   entry, trace>>
    /\ UNCHANGED nonmigration

\* migration(db): the callback self.migrations[from_version].
Migration ==
    /\ pc = "migration"
    /\ \E effect \in Effects :
         LET changed == [db EXCEPT !.tables = @ \cup {Dec(from_version + 1)}]
         IN  /\ trace' = Append(trace, Event("migration", from_version))
             /\ CASE effect = "ok" -> db' = changed /\ exc' = exc /\ pc' = "foreign_key_check"
                  [] effect = "raise" ->
                        /\ db' = changed
                        /\ exc' = Raise("Exception", <<"migration">>)
                        /\ pc' = "ddl_exit"
                  [] effect = "orphan" ->
                        /\ db' = [changed EXCEPT !.fk_violations = TRUE]
                        /\ exc' = exc
                        /\ pc' = "foreign_key_check"
                  [] OTHER ->
                        /\ db' = [changed EXCEPT !.application_id =
                                     CHOOSE i \in 1..MaxId : Dec(i) = effect]
                        /\ exc' = exc
                        /\ pc' = "foreign_key_check"
    /\ UNCHANGED <<foreign_keys, in_transaction, isolation_level, journal, self, id,
                   version, from_version, saved_fk, saved_isolation, result, calls, entry>>
    /\ UNCHANGED nonmigration

\* foreign_key_check(db): raises IntegrityError when PRAGMA foreign_key_check returns rows.
foreign_key_check_raises == db.fk_violations

\* try: foreign_key_check(db) except IntegrityError as e: raise IntegrityError(f"...{e}") from None
ForeignKeyCheck ==
    /\ pc = "foreign_key_check"
    /\ trace' = Append(trace, Event("foreign_key_check", from_version))
    /\ IF foreign_key_check_raises
       THEN LET e == Raise("IntegrityError", <<"FOREIGN KEY constraint failed">>)
            IN  /\ exc' = Raise("IntegrityError",
                                <<"after migrating to version ", Dec(from_version + 1), ": ">>
                                \o Str(e))
                /\ pc' = "ddl_exit"
                /\ from_version' = from_version
       ELSE /\ exc' = exc
            /\ from_version' = from_version + 1
            /\ pc' = "loop"
    /\ UNCHANGED <<dbvars, self, id, version, saved_fk, saved_isolation, result, calls, entry>>
    /\ UNCHANGED nonmigration

\* The first check's condition copied: a missing id passes.
FinalIdInvalid_Truthy(stored) == stored # 0 /\ stored # self.id

\* if id != self.id
FinalIdInvalid(stored) == stored # self.id

\* After the loop: if self.id: id = get_id(db); if id != self.id: raise IdError.
FinalIdCheck ==
    /\ pc = "final_id"
    /\ IF self.id # 0
       THEN /\ id' = get_int_pragma("application_id")
            /\ IF FinalIdInvalid(id')
               THEN exc' = Raise("IdError", <<"missing or invalid id after migration: 0x", Hex(id')>>)
               ELSE exc' = exc
       ELSE /\ id' = id
            /\ exc' = exc
    /\ pc' = "ddl_exit"
    /\ UNCHANGED <<dbvars, self, version, from_version, saved_fk, saved_isolation,
                   result, calls, entry, trace>>
    /\ UNCHANGED nonmigration

\* No rollback on an exception: what was executed stays (the implicit commit the
\* docstring of ddl_transaction() describes).
TransactionEnd_Implicit(d, rollback) == d

\* The database after COMMIT (the changes stay) or ROLLBACK (as of BEGIN).
TransactionEnd(d, rollback) == IF rollback THEN journal ELSE d

\* ddl_transaction() after its yield: COMMIT, or ROLLBACK and re-raise;
\* finally isolation_level is put back.
DdlTransactionExit ==
    /\ pc = "ddl_exit"
    /\ db' = TransactionEnd(db, exc # NoExc)
    /\ trace' = Append(trace, Event(IF exc = NoExc THEN "COMMIT" ELSE "ROLLBACK", 0))
    /\ in_transaction' = FALSE
    /\ journal' = db'
    /\ isolation_level' = saved_isolation
    /\ pc' = "foreign_keys_restore"
    /\ UNCHANGED <<foreign_keys, self, id, version, from_version, saved_fk,
                   saved_isolation, exc, result, calls, entry>>
    /\ UNCHANGED nonmigration

\* Without try/finally: the pragma is put back only when the body did not raise.
RestoredForeignKeys_NoFinally == IF exc = NoExc THEN saved_fk ELSE foreign_keys

\* finally: the value read on entry
RestoredForeignKeys == saved_fk

\* foreign_keys_off()'s finally: PRAGMA foreign_keys = ON or OFF, as read on entry;
\* migrate() then returns or raises.
ForeignKeysOffExit ==
    /\ pc = "foreign_keys_restore"
    /\ foreign_keys' = SetForeignKeys(RestoredForeignKeys)
    /\ trace' = Append(trace, Event(ForeignKeysPragma(RestoredForeignKeys), 0))
    /\ result' = exc
    /\ pc' = "done"
    /\ UNCHANGED <<db, in_transaction, isolation_level, journal, self, id, version,
                   from_version, saved_fk, saved_isolation, exc, calls, entry>>
    /\ UNCHANGED nonmigration

Next ==
    \/ Migrate
    \/ ForeignKeysOffEnter
    \/ DdlTransactionEnter
    \/ CheckId
    \/ GetVersion
    \/ VersionZero
    \/ Create
    \/ VersionCurrent
    \/ VersionTooNew
    \/ LoopEnter
    \/ LoopStep
    \/ Migration
    \/ ForeignKeyCheck
    \/ FinalIdCheck
    \/ DdlTransactionExit
    \/ ForeignKeysOffExit

Spec == Init /\ [][Next]_vars

\* ------------------------------------------------- LocalConnectionFactory

\* No migrate(): the state of its variables while the factory is looked at.
MigrationIdle ==
    /\ db = [user_version |-> 0, application_id |-> 0, tables |-> {}, fk_violations |-> FALSE]
    /\ foreign_keys = FALSE
    /\ in_transaction = FALSE
    /\ isolation_level = ""
    /\ journal = db
    /\ self = [version |-> 1, id |-> 0, migrations |-> {}]
    /\ pc = "idle"
    /\ id = Unbound
    /\ version = Unbound
    /\ from_version = Unbound
    /\ saved_fk = FALSE
    /\ saved_isolation = ""
    /\ exc = NoExc
    /\ result = NoExc
    /\ calls = 0
    /\ entry = [db |-> db, foreign_keys |-> foreign_keys,
                isolation_level |-> isolation_level, calls |-> calls, result |-> result]
    /\ trace = <<>>

\* The paths tried: the two private ones and a file.
Paths == {":memory:", "", "reader.sqlite"}

\* What a before_close hook may be: it does not touch the connection; it runs
\* statements that succeed on an open connection; its statement fails with
\* OperationalError; its statement fails with another ProgrammingError.
Hooks == {"nothing", "uses_db", "locked", "bad_sql"}

\* sqlite3's message for any operation on a closed connection, word by word.
ClosedDatabaseMessage == <<"Cannot", "operate", "on", "a", "closed", "database", ".">>

\* str.lower(), word by word.
LowerWord(w) ==
    CASE w = "Cannot" -> "cannot"
      [] w = "SQL" -> "sql"
      [] w = "File" -> "file"
      [] OTHER -> w

Lower(msg) == [i \in 1..Len(msg) |-> LowerWord(msg[i])]

\* needle in text
Contains(needle, text) ==
    \E i \in 0..(Len(text) - Len(needle)) :
        \A j \in 1..Len(needle) : text[i + j] = needle[j]

\* What before_close(db) raises: every statement on a closed connection raises
\* ProgrammingError; on an open one the hook does what it is.
HookRaises(hook, c) ==
    CASE hook = "nothing" -> NoExc
      [] ~c.open -> Raise("ProgrammingError", ClosedDatabaseMessage)
      [] hook = "uses_db" -> NoExc
      [] hook = "locked" -> Raise("OperationalError", <<"database", "is", "locked">>)
      [] OTHER -> Raise("ProgrammingError", <<"SQL", "statements", "in", "progress">>)

\* The message test done on the text as it is (no lower()): sqlite3's capital C
\* never matches.
IsClosedDatabaseError_CaseSensitive(e) ==
    /\ e.type = "ProgrammingError"
    /\ Contains(<<"cannot", "operate", "on", "a", "closed", "database">>, e.msg)

\* except sqlite3.ProgrammingError as e: "cannot operate on a closed database" in str(e).lower()
IsClosedDatabaseError(e) ==
    /\ e.type = "ProgrammingError"
    /\ Contains(<<"cannot", "operate", "on", "a", "closed", "database">>, Lower(Str(e)))

\* _is_private(path)
is_private(p) == p \in {":memory:", ""}

\* _close(): the connection as before_close(db) finds it, db.close() coming after.
HookSees(t) == conns[local[t]]

\* _close(): what the call of before_close raises; "none" is for no call.
HookCall(t, hook) ==
    IF local[t] = 0 \/ hook = "none" THEN NoExc ELSE HookRaises(hook, HookSees(t))

\* _close(): what it raises, which is what before_close raised unless that is the
\* closed-database error; db.close() runs only when it raises nothing.
CloseRaises(t, hook) ==
    LET e == HookCall(t, hook)
    IN  IF e # NoExc /\ ~IsClosedDatabaseError(e) THEN e ELSE NoExc

\* _close(): the connections afterwards.
CloseConns(t, hook) ==
    IF local[t] = 0 \/ CloseRaises(t, hook) # NoExc THEN conns
    ELSE [conns EXCEPT ![local[t]].open = FALSE]

\* The history entry of a call by thread t.
Call(op, t, ret, e, hook, body_raised, connected) ==
    [op |-> op, thread |-> t, ret |-> ret, exc |-> e, scoped |-> depth[t] > 0,
     conn |-> local[t],
     was_open |-> IF local[t] = 0 THEN FALSE ELSE conns[local[t]].open,
     hook_conn |-> IF hook = "none" THEN 0 ELSE local[t],
     hook_open |-> IF hook = "none" \/ local[t] = 0 THEN FALSE ELSE HookSees(t).open,
     hook_exc |-> HookCall(t, hook),
     body_raised |-> body_raised, connected |-> connected]

\* The value looked up is the factory's _main when the thread has none (one
\* attribute shared by all threads instead of a ContextVar).
LocalGet_Shared(t) == IF local[t] = 0 THEN main ELSE local[t]

\* self._local.get(None): the calling thread's value, 0 for none.
LocalGet(t) == local[t]

\* __enter__(): the thread's connection, made by connect() when it has none.
EnterConn(t) == IF LocalGet(t) = 0 THEN Len(conns) + 1 ELSE LocalGet(t)

EnterConns(t) ==
    IF LocalGet(t) = 0 THEN Append(conns, [thread |-> t, open |-> TRUE]) ELSE conns

\* LocalConnectionFactory(path, before_close): __init__, by the creating thread.
New ==
    /\ main = 0
    /\ \E p \in Paths : path' = p
    /\ conns' = EnterConns(Creator)
    /\ local' = [local EXCEPT ![Creator] = EnterConn(Creator)]
    /\ main' = EnterConn(Creator)
    /\ last' = Call("__init__", Creator, 0, NoExc, "none", FALSE, TRUE)
    /\ UNCHANGED depth
    /\ UNCHANGED nonfactory

\* get(): which UsageError it raises, if any.
GetRaises(t) ==
    IF LocalGet(t) = 0
    THEN Raise("UsageError", <<"must be used as a context manager when using from threads other than the creating thread">>)
    ELSE IF is_private(path) /\ LocalGet(t) # main
    THEN Raise("UsageError", <<"cannot use a private database from threads other than the creating thread">>)
    ELSE NoExc

\* get(), by any thread.
Get(t) ==
    /\ main # 0
    /\ last' = Call("get", t, IF GetRaises(t) = NoExc THEN LocalGet(t) ELSE 0, GetRaises(t),
                    "none", FALSE, FALSE)
    /\ UNCHANGED <<path, conns, local, main, depth>>
    /\ UNCHANGED nonfactory

\* with factory: __enter__(), by any thread.
Enter(t) ==
    /\ main # 0
    /\ depth[t] < MaxDepth
    /\ conns' = EnterConns(t)
    /\ local' = [local EXCEPT ![t] = EnterConn(t)]
    /\ depth' = [depth EXCEPT ![t] = @ + 1]
    /\ last' = Call("__enter__", t, EnterConn(t), NoExc, "none", FALSE, LocalGet(t) = 0)
    /\ UNCHANGED <<path, main>>
    /\ UNCHANGED nonfactory

\* The end of a with block of the factory: __exit__(), after a body that returned or raised.
Exit(t) ==
    /\ main # 0
    /\ depth[t] > 0
    /\ \E hook \in Hooks, body_raised \in BOOLEAN :
         /\ conns' = CloseConns(t, hook)
         /\ last' = Call("__exit__", t, 0, CloseRaises(t, hook), hook, body_raised, FALSE)
    /\ depth' = [depth EXCEPT ![t] = @ - 1]
    /\ UNCHANGED <<path, local, main>>
    /\ UNCHANGED nonfactory

\* close(): db = self._local.get(None); if db is not self._main: raise UsageError
CloseRefused(t) == LocalGet(t) # main

\* close(), by any thread.
Close(t) ==
    /\ main # 0
    /\ \E hook \in Hooks :
         IF CloseRefused(t)
         THEN /\ last' = Call("close", t, 0,
                              Raise("UsageError", <<"cannot close() from threads other than the creating thread, use as a context manager">>),
                              "none", FALSE, FALSE)
              /\ conns' = conns
         ELSE /\ conns' = CloseConns(t, hook)
              /\ last' = Call("close", t, 0, CloseRaises(t, hook), hook, FALSE, FALSE)
    /\ UNCHANGED <<path, local, main, depth>>
    /\ UNCHANGED nonfactory

FactoryInit ==
    /\ MigrationIdle
    /\ FactoryIdle
    /\ StoreIdle
    /\ WrapIdle
    /\ LockIdle
    /\ PageIdle
    /\ SetupIdle
    /\ FancyIdle
    /\ PoolIdle

FactoryNext ==
    \/ New
    \/ \E t \in Threads : Get(t)
    \/ \E t \in Threads : Enter(t)
    \/ \E t \in Threads : Exit(t)
    \/ \E t \in Threads : Close(t)

FactorySpec == FactoryInit /\ [][FactoryNext]_vars

\* ------------------------------------------------------------------ Storage

FeedNotFoundError(url) == Raise("FeedNotFoundError", <<url>>)

EntryNotFoundError(feed, entry_id) == Raise("EntryNotFoundError", <<feed, entry_id>>)

MetadataNotFoundError(feed, key) == Raise("MetadataNotFoundError", <<feed, key>>)

\* add_feed(url, added): a feed that is not stored yet.
AddFeed(url) ==
    /\ url \notin feeds
    /\ feeds' = feeds \cup {url}
    /\ last_updated' = [u \in feeds \cup {url} |-> IF u = url THEN "None" ELSE last_updated[u]]
    /\ called' = StorageCall("add_feed", url, "", NoExc)
    /\ UNCHANGED <<entries, metadata>>
    /\ UNCHANGED nonstore

\* The rows of other tables stay when a feed goes (no ON DELETE CASCADE).
Cascade_Off(rows, url) == rows

\* ON DELETE CASCADE: the rows of a table left when feed url is deleted.
Cascade(rows, url) == {r \in rows : r.feed # url}

\* remove_feed(url)
RemoveFeed(url) ==
    /\ IF url \in feeds
       THEN /\ feeds' = feeds \ {url}
            /\ last_updated' = [u \in feeds \ {url} |-> last_updated[u]]
            /\ entries' = Cascade(entries, url)
            /\ metadata' = Cascade(metadata, url)
            /\ called' = StorageCall("remove_feed", url, "", NoExc)
       ELSE /\ called' = StorageCall("remove_feed", url, "", FeedNotFoundError(url))
            /\ UNCHANGED <<feeds, last_updated, entries, metadata>>
    /\ UNCHANGED nonstore

\* The update overwrites the whole row, flags too.
UpdatedEntry_Overwritten(r, updated) == NewEntry(r.feed, r.id, updated)

\* The update of a stored entry: the feed-sourced fields are overwritten, read
\* and important are preserved.
UpdatedEntry(r, updated) == [r EXCEPT !.updated = updated]

\* add_or_update_entry(feed_url, entry, ...): the entries table afterwards.
UpsertEntry(feed, entry_id, updated) ==
    IF EntryRows(feed, entry_id) = {}
    THEN entries \cup {NewEntry(feed, entry_id, updated)}
    ELSE (entries \ EntryRows(feed, entry_id))
            \cup {UpdatedEntry(r, updated) : r \in EntryRows(feed, entry_id)}

\* add_or_update_entry(feed_url, entry, last_updated, first_updated_epoch, feed_order)
AddOrUpdateEntry(feed, entry_id, updated) ==
    /\ EntryRows(feed, entry_id) = {} => RowCount < MaxRows
    /\ IF feed \in feeds
       THEN /\ entries' = UpsertEntry(feed, entry_id, updated)
            /\ called' = StorageCall("add_or_update_entry", feed, entry_id, NoExc)
       ELSE /\ called' = StorageCall("add_or_update_entry", feed, entry_id, FeedNotFoundError(feed))
            /\ UNCHANGED entries
    /\ UNCHANGED <<feeds, last_updated, metadata>>
    /\ UNCHANGED nonstore

\* UPDATE entries SET <flag> = ? WHERE feed = ? AND id = ?
SetFlag(feed, entry_id, flag, value) ==
    (entries \ EntryRows(feed, entry_id))
        \cup {[r EXCEPT ![flag] = value] : r \in EntryRows(feed, entry_id)}

\* mark_as_read_unread and mark_as_important_unimportant: rowcount != 1 raises
\* EntryNotFoundError.
Mark(op, flag, feed, entry_id, value) ==
    /\ IF Cardinality(EntryRows(feed, entry_id)) = 1
       THEN /\ entries' = SetFlag(feed, entry_id, flag, value)
            /\ called' = StorageCall(op, feed, entry_id, NoExc)
       ELSE /\ called' = StorageCall(op, feed, entry_id, EntryNotFoundError(feed, entry_id))
            /\ UNCHANGED entries
    /\ UNCHANGED <<feeds, last_updated, metadata>>
    /\ UNCHANGED nonstore

\* A check of the rowcount that lets every rowcount through.
rowcount_exactly_one_Unchecked(rowcount, e) == NoExc

\* rowcount_exactly_one(cursor, make_exc): what it raises for a rowcount.
rowcount_exactly_one(rowcount, e) ==
    IF rowcount = 0 THEN e
    ELSE IF rowcount # 1 THEN Raise("AssertionError", <<"shouldn't have more than 1 row">>)
    ELSE NoExc

\* UPDATE feeds SET ... WHERE url = ?: its rowcount.
FeedRowcount(url) == Cardinality({u \in feeds : u = url})

\* update_feed(url, feed, http_etag, http_last_modified, last_updated): of the
\* fields it writes the model keeps last_updated.
UpdateFeed(url, updated) ==
    /\ called' = StorageCall("update_feed", url, "",
                             rowcount_exactly_one(FeedRowcount(url), FeedNotFoundError(url)))
    /\ IF FeedRowcount(url) = 0
       THEN UNCHANGED last_updated
       ELSE last_updated' = [last_updated EXCEPT ![url] = updated]
    /\ UNCHANGED <<feeds, entries, metadata>>
    /\ UNCHANGED nonstore

\* mark_as_read_unread(feed_url, entry_id, read)
MarkAsReadUnread(feed, entry_id, value) ==
    Mark("mark_as_read_unread", "read", feed, entry_id, value)

\* mark_as_important_unimportant(feed_url, entry_id, important)
MarkAsImportantUnimportant(feed, entry_id, value) ==
    Mark("mark_as_important_unimportant", "important", feed, entry_id, value)

\* A plain insert: the pairs already stored for the key stay.
UpsertMetadata_Insert(feed, key, value) ==
    metadata \cup {[feed |-> feed, key |-> key, value |-> value]}

\* set_feed_metadata: the upsert on (feed, key).
UpsertMetadata(feed, key, value) ==
    (metadata \ MetadataRows(feed, key)) \cup {[feed |-> feed, key |-> key, value |-> value]}

\* set_feed_metadata(feed_url, key, value)
SetFeedMetadata(feed, key, value) ==
    /\ MetadataRows(feed, key) = {} => RowCount < MaxRows
    /\ IF feed \in feeds
       THEN /\ metadata' = UpsertMetadata(feed, key, value)
            /\ called' = StorageCall("set_feed_metadata", feed, key, NoExc)
       ELSE /\ called' = StorageCall("set_feed_metadata", feed, key, FeedNotFoundError(feed))
            /\ UNCHANGED metadata
    /\ UNCHANGED <<feeds, last_updated, entries>>
    /\ UNCHANGED nonstore

\* delete_feed_metadata(feed_url, key)
DeleteFeedMetadata(feed, key) ==
    /\ IF MetadataRows(feed, key) # {}
       THEN /\ metadata' = metadata \ MetadataRows(feed, key)
            /\ called' = StorageCall("delete_feed_metadata", feed, key, NoExc)
       ELSE /\ called' = StorageCall("delete_feed_metadata", feed, key, MetadataNotFoundError(feed, key))
            /\ UNCHANGED metadata
    /\ UNCHANGED <<feeds, last_updated, entries>>
    /\ UNCHANGED nonstore

\* iter_feed_metadata(feed_url): the (key, value) pairs of the feed.
iter_feed_metadata(feed) == {<<r.key, r.value>> : r \in {m \in metadata : m.feed = feed}}

\* EntryForUpdate(updated) and the null marker.
EntryForUpdate(updated) == <<"EntryForUpdate", updated>>

None == <<"None">>

\* The rows of a result set, in some order.
RECURSIVE Rows(_)
Rows(set) ==
    IF set = {} THEN <<>>
    ELSE LET r == CHOOSE x \in set : TRUE IN <<r>> \o Rows(set \ {r})

\* The pairs a caller asks about, up to a length.
RECURSIVE PairLists(_)
PairLists(n) ==
    IF n = 0 THEN {<<>>}
    ELSE PairLists(n - 1)
            \cup {Append(l, p) : l \in {x \in PairLists(n - 1) : Len(x) = n - 1},
                                 p \in FeedUrls \X EntryIds}

\* The left join of one key of the VALUES list with entries: its matches, or one
\* row of NULLs.
LeftJoin(pair) ==
    IF EntryRows(pair[1], pair[2]) = {} THEN <<None>>
    ELSE Rows({EntryForUpdate(r.updated) : r \in EntryRows(pair[1], pair[2])})

\* The single query: the VALUES list left-joined to entries, in the order of the list.
RECURSIVE get_entries_for_update_one_query(_)
get_entries_for_update_one_query(pairs) ==
    IF pairs = <<>> THEN <<>>
    ELSE LeftJoin(Head(pairs)) \o get_entries_for_update_one_query(Tail(pairs))

\* The query of one pair finds no row whatever is stored.
OneRow_Missing(pair) == None

\* The fallback's query of one pair: the first row, if any.
OneRow(pair) ==
    IF EntryRows(pair[1], pair[2]) = {} THEN None
    ELSE EntryForUpdate((CHOOSE r \in EntryRows(pair[1], pair[2]) : TRUE).updated)

\* The fallback: one query per pair.
get_entries_for_update_n_queries(pairs) == [i \in 1..Len(pairs) |-> OneRow(pairs[i])]

\* The engine rejects the single query with "too many SQL variables": two
\* variables per pair.
TooManyVariables(pairs) == 2 * Len(pairs) > MaxVariableNumber

\* get_entries_for_update(pairs); forced is the test's knob that makes the single
\* query fail.
GetEntriesForUpdate(pairs, forced) ==
    /\ called' = [StorageCall("get_entries_for_update", "", "", NoExc) EXCEPT
                     !.pairs = pairs,
                     !.fallback = forced \/ TooManyVariables(pairs),
                     !.ret = IF forced \/ TooManyVariables(pairs)
                             THEN get_entries_for_update_n_queries(pairs)
                             ELSE get_entries_for_update_one_query(pairs)]
    /\ UNCHANGED <<feeds, last_updated, entries, metadata>>
    /\ UNCHANGED nonstore

StoreInit ==
    /\ MigrationIdle
    /\ FactoryIdle
    /\ StoreIdle
    /\ WrapIdle
    /\ LockIdle
    /\ PageIdle
    /\ SetupIdle
    /\ FancyIdle
    /\ PoolIdle

StoreNext ==
    \/ \E url \in FeedUrls : AddFeed(url)
    \/ \E url \in FeedUrls : RemoveFeed(url)
    \/ \E feed \in FeedUrls, entry_id \in EntryIds, updated \in Updateds :
          AddOrUpdateEntry(feed, entry_id, updated)
    \/ \E feed \in FeedUrls, entry_id \in EntryIds, value \in BOOLEAN :
          MarkAsReadUnread(feed, entry_id, value)
    \/ \E feed \in FeedUrls, entry_id \in EntryIds, value \in BOOLEAN :
          MarkAsImportantUnimportant(feed, entry_id, value)
    \/ \E feed \in FeedUrls, key \in MetadataKeys, value \in MetadataValues :
          SetFeedMetadata(feed, key, value)
    \/ \E feed \in FeedUrls, key \in MetadataKeys : DeleteFeedMetadata(feed, key)

StoreSpec == StoreInit /\ [][StoreNext]_vars

\* The update-for-fetch protocol: a fetcher asks about pairs and writes entries.
UpdateNext ==
    \/ \E url \in FeedUrls : AddFeed(url)
    \/ \E url \in FeedUrls : RemoveFeed(url)
    \/ \E feed \in FeedUrls, entry_id \in EntryIds, updated \in Updateds :
          AddOrUpdateEntry(feed, entry_id, updated)
    \/ \E pairs \in PairLists(MaxPairs), forced \in BOOLEAN : GetEntriesForUpdate(pairs, forced)

UpdateSpec == StoreInit /\ [][UpdateNext]_vars

\* The methods that write, update_feed among them.
MutationNext ==
    \/ \E url \in FeedUrls : AddFeed(url)
    \/ \E feed \in FeedUrls, updated \in Updateds : AddOrUpdateEntry(feed, "one", updated)
    \/ \E url \in FeedUrls, updated \in Updateds : UpdateFeed(url, updated)
    \/ \E feed \in FeedUrls, entry_id \in EntryIds, value \in BOOLEAN :
          MarkAsReadUnread(feed, entry_id, value)
    \/ \E feed \in FeedUrls, entry_id \in EntryIds, value \in BOOLEAN :
          MarkAsImportantUnimportant(feed, entry_id, value)
    \/ \E feed \in FeedUrls, value \in MetadataValues : SetFeedMetadata(feed, "key", value)
    \/ \E feed \in FeedUrls, key \in MetadataKeys : DeleteFeedMetadata(feed, key)

MutationSpec == StoreInit /\ [][MutationNext]_vars

\* ----------------------------------------------------- reading the history

\* migrate() has returned (or raised): result says which.
Done == pc = "done"

Returned == Done /\ result = NoExc

Failed == Done /\ result # NoExc

\* The keys of the migrations run so far, in the order they ran.
RECURSIVE KeysRun(_)
KeysRun(t) ==
    IF t = <<>> THEN <<>>
    ELSE IF Head(t).op = "migration" THEN <<Head(t).key>> \o KeysRun(Tail(t))
    ELSE KeysRun(Tail(t))

Ran(op) == \E i \in 1..Len(trace) : trace[i].op = op

\* v, v+1, ..., w-1 as a sequence.
Range(v, w) == [i \in 1..(IF w > v THEN w - v ELSE 0) |-> v + i - 1]

IsPrefix(s, t) == Len(s) <= Len(t) /\ \A i \in 1..Len(s) : s[i] = t[i]

\* The id check at the top of migrate() fails: an id is configured and the stored
\* id is non-zero and different.
IdMismatch == self.id # 0 /\ entry.db.application_id # 0 /\ entry.db.application_id # self.id

\* ----------------------------------------------------------------- claims

\* C1: whenever migrate(db) returns without error, from any starting state, the
\* stored user_version equals the target version and, when a non-zero id is
\* configured, the stored application_id equals the configured id.
C1_ReturnedAtTarget ==
    Returned =>
        /\ db.user_version = self.version
        /\ self.id # 0 => db.application_id = self.id

\* C1's case: an older database with a configured id is migrated through two
\* steps, one of which stamps the id, and migrate returns.
C1_Witness ==
    /\ Returned
    /\ calls = 1
    /\ self.id # 0
    /\ entry.db.application_id = 0
    /\ entry.db.user_version > 0
    /\ Len(KeysRun(trace)) >= 2

\* C2: if migrate(db) fails for any reason, the transaction is rolled back:
\* user_version, application_id, schema and data are what they were before the call.
C2_FailureRollsBack ==
    Failed =>
        /\ db = entry.db
        /\ ~in_transaction
        /\ Ran("ROLLBACK") /\ ~Ran("COMMIT")

\* C2's case: two migration steps ran and bumped the version, then migrate failed.
C2_Witness ==
    /\ Failed
    /\ Len(KeysRun(trace)) >= 2
    /\ \E i \in 1..Len(trace) :
         trace[i].op = "foreign_key_check" /\ trace[i].ver > entry.db.user_version + 1

\* Neither create nor any migration ran.
NothingRan == ~Ran("create") /\ ~Ran("migration")

\* C3 as stated: when the stored user_version is greater than the target, migrate
\* fails with SchemaVersionError("invalid version: <stored version>") and runs
\* neither create nor any migration.
C3_Original ==
    (Done /\ entry.db.user_version > self.version) =>
        /\ result = Raise("SchemaVersionError", <<"invalid version: ", Dec(entry.db.user_version)>>)
        /\ NothingRan

\* C3, amended: when the stored user_version is greater than the target, migrate
\* runs neither create nor any migration and fails: with IdError when the id check
\* at the top fails (it comes first), and otherwise with
\* SchemaVersionError("invalid version: <stored version>").
C3_TooNewFails ==
    (Done /\ entry.db.user_version > self.version) =>
        /\ NothingRan
        /\ IdMismatch => result.type = "IdError"
        /\ ~IdMismatch =>
             result = Raise("SchemaVersionError",
                            <<"invalid version: ", Dec(entry.db.user_version)>>)

\* C3's case: a database one version past the target, with the id in order, was refused.
C3_Witness ==
    /\ Done
    /\ entry.db.user_version = self.version + 1
    /\ self.id # 0
    /\ entry.db.application_id = self.id
    /\ result.type = "SchemaVersionError"

\* C4 as stated: when the stored user_version is 0 and the database already
\* contains a table, migrate fails with DBError("database with no version already
\* has tables") and create is not run; create runs only when the version is 0 and
\* the database is empty.
C4_Original ==
    /\ (Done /\ entry.db.user_version = 0 /\ entry.db.tables # {}) =>
          /\ result = Raise("DBError", <<"database with no version already has tables">>)
          /\ ~Ran("create")
    /\ Ran("create") => (entry.db.user_version = 0 /\ entry.db.tables = {})

\* C4, amended: when the stored user_version is 0 and the database already
\* contains a table, create is not run and migrate fails: with IdError when the id
\* check at the top fails (it comes first), and otherwise with DBError("database
\* with no version already has tables"); create runs only when the version is 0
\* and the database is empty.
C4_NoClobber ==
    /\ (Done /\ entry.db.user_version = 0 /\ entry.db.tables # {}) =>
          /\ ~Ran("create")
          /\ IdMismatch => result.type = "IdError"
          /\ ~IdMismatch =>
               result = Raise("DBError", <<"database with no version already has tables">>)
    /\ Ran("create") => (entry.db.user_version = 0 /\ entry.db.tables = {})

\* C4's case: a database with no version and a table was refused with DBError and
\* left as it was.
C4_Witness ==
    /\ Done
    /\ entry.db.user_version = 0
    /\ entry.db.tables # {}
    /\ result.type = "DBError"
    /\ db.tables = entry.db.tables

\* The migration chain from the stored version to the target is complete.
ChainComplete ==
    \A u \in entry.db.user_version..(self.version - 1) : u \in self.migrations

Older == 0 < entry.db.user_version /\ entry.db.user_version < self.version

\* Every migration that ran found the stored version already set to its key + 1.
RanAtNextVersion ==
    \A i \in 1..Len(trace) : trace[i].op = "migration" => trace[i].ver = trace[i].key + 1

\* C5 as stated: for a stored version v with 0 < v < target and a complete chain,
\* migrate runs exactly the migrations keyed v, ..., target-1, each once and in
\* ascending order, never runs create, and when migration u runs the stored
\* version has already been set to u+1.
C5_Original ==
    (Done /\ Older /\ ChainComplete) =>
        /\ KeysRun(trace) = Range(entry.db.user_version, self.version)
        /\ ~Ran("create")
        /\ RanAtNextVersion

\* C5, amended: for a stored version v with 0 < v < target and a complete chain,
\* migrate never runs create and runs the migrations keyed v, v+1, ... in ascending
\* order, each at most once, each with the stored version already set to its key
\* + 1; it stops at the first step that fails (the id check at the top, a migration
\* that raises, a foreign-key violation), and a migrate that returns has run exactly
\* the migrations keyed v, ..., target-1.
C5_AscendingSteps ==
    (Older /\ ChainComplete /\ calls > 0) =>
        /\ IsPrefix(KeysRun(trace), Range(entry.db.user_version, self.version))
        /\ ~Ran("create")
        /\ RanAtNextVersion
        /\ (Done /\ result.type \in {"None", "IdError"} /\ ~IdMismatch) =>
              KeysRun(trace) = Range(entry.db.user_version, self.version)

\* C5's case: a database two versions behind was migrated through both steps.
C5_Witness ==
    /\ Returned
    /\ Older
    /\ ChainComplete
    /\ entry.db.user_version + 2 = self.version
    /\ KeysRun(trace) = <<entry.db.user_version, entry.db.user_version + 1>>

\* The first step of the chain that has no migration.
FirstMissing ==
    CHOOSE u \in entry.db.user_version..(self.version - 1) :
        /\ u \notin self.migrations
        /\ \A w \in entry.db.user_version..(u - 1) : w \in self.migrations

\* C6 as stated: if 0 < v < target and some step u in v..target-1 has no entry in
\* migrations, migrate fails with SchemaVersionError, no migration keyed above u
\* runs, and the database ends at its original version v.
C6_Original ==
    (Done /\ Older /\ ~ChainComplete) =>
        /\ result.type = "SchemaVersionError"
        /\ \A u \in entry.db.user_version..(self.version - 1) :
              u \notin self.migrations =>
                 \A i \in 1..Len(KeysRun(trace)) : KeysRun(trace)[i] <= u
        /\ db.user_version = entry.db.user_version

\* C6, amended: if 0 < v < target and some step has no entry in migrations, let u
\* be the first such step: migrate fails, no migration keyed u or above runs, and
\* the database ends at its original version v; the failure is the
\* SchemaVersionError "no migration from u to u+1; ..." unless the id check at the
\* top or one of the steps before u failed first.
C6_GapFails ==
    (Done /\ Older /\ ~ChainComplete) =>
        /\ Failed
        /\ \A i \in 1..Len(KeysRun(trace)) : KeysRun(trace)[i] < FirstMissing
        /\ db.user_version = entry.db.user_version
        /\ (~IdMismatch /\ result.type \notin {"Exception", "IntegrityError"}) =>
              result = Raise("SchemaVersionError",
                             <<"no migration from ", Dec(FirstMissing), " to ",
                               Dec(FirstMissing + 1),
                               "; expected migrations for all versions later than ",
                               Dec(entry.db.user_version)>>)

\* C6's case: the first step ran, the second has no migration, and migrate failed
\* with SchemaVersionError, the version back where it was.
C6_Witness ==
    /\ Done
    /\ Older
    /\ ~ChainComplete
    /\ KeysRun(trace) = <<entry.db.user_version>>
    /\ FirstMissing = entry.db.user_version + 1
    /\ result.type = "SchemaVersionError"
    /\ db.user_version = entry.db.user_version

\* The message the claim gives for a violation found after the step to to_version.
C7_Message(to_version) ==
    <<"after migrating to version ", Dec(to_version), ": ", "FOREIGN KEY constraint failed">>

\* C7 as stated: foreign_key_check runs after every migration step; if the step
\* u -> u+1 leaves a foreign-key violation, migrate fails with IntegrityError whose
\* message is "after migrating to version <u+1>: FOREIGN KEY constraint failed",
\* and no later migration step runs.
C7_Original ==
    \A i \in 1..Len(trace) :
        /\ (trace[i].op = "migration" /\ i < Len(trace)) =>
              trace[i + 1].op \in {"foreign_key_check", "ROLLBACK"}
        /\ (trace[i].op = "foreign_key_check" /\ trace[i].violations) =>
              /\ exc = Raise("IntegrityError", C7_Message(trace[i].key + 1))
              /\ Done => result = exc
              /\ \A j \in (i + 1)..Len(trace) : trace[j].op # "migration"

\* C7, what the code does: the same with the message that migrate() builds from
\* str(e), which carries the display name of the inner IntegrityError:
\* "after migrating to version <u+1>: integrity error: FOREIGN KEY constraint failed".
C7_CodeMessage ==
    \A i \in 1..Len(trace) :
        /\ (trace[i].op = "migration" /\ i < Len(trace)) =>
              trace[i + 1].op \in {"foreign_key_check", "ROLLBACK"}
        /\ (trace[i].op = "foreign_key_check" /\ trace[i].violations) =>
              /\ exc = Raise("IntegrityError",
                             <<"after migrating to version ", Dec(trace[i].key + 1), ": ",
                               "integrity error", ": ", "FOREIGN KEY constraint failed">>)
              /\ Done => result = exc
              /\ \A j \in (i + 1)..Len(trace) : trace[j].op # "migration"

\* C8: with a configured id and a stored id that is non-zero and different, migrate
\* fails with IdError whatever the stored version, before the version is read:
\* neither create nor any migration runs and no other error takes its place.
C8_IdCheckedFirst ==
    (IdMismatch /\ pc \notin {"idle", "foreign_keys_off", "ddl_transaction", "check_id"}) =>
        /\ pc \in {"ddl_exit", "foreign_keys_restore", "done"}
        /\ exc = Raise("IdError", <<"invalid id: 0x", Hex(entry.db.application_id)>>)
        /\ version = Unbound
        /\ NothingRan
        /\ Done => result = exc

\* C8's case: a database that is also too new (and has tables), refused for its id.
C8_Witness ==
    /\ Done
    /\ IdMismatch
    /\ entry.db.user_version > self.version
    /\ entry.db.tables # {}
    /\ result.type = "IdError"

\* C9 as stated: when the stored version equals the target, migrate runs neither
\* create nor any migration and changes no persistent state; it fails with IdError
\* exactly when an id is configured and the stored id is zero.  Hence a second
\* migrate right after a successful one is a no-op that succeeds.
C9_Original ==
    /\ (Done /\ entry.db.user_version = self.version) =>
          /\ NothingRan
          /\ db = entry.db
          /\ result.type = "IdError" <=> (self.id # 0 /\ entry.db.application_id = 0)
    /\ (Done /\ entry.calls > 0 /\ entry.result = NoExc) =>
          /\ result = NoExc
          /\ NothingRan
          /\ db = entry.db

\* C9, amended: when the stored version equals the target, migrate runs neither
\* create nor any migration and changes no persistent state; it fails, with
\* IdError, exactly when an id is configured and the stored id is zero or differs
\* from it.  Hence a second migrate right after a successful one is a no-op that
\* succeeds.
C9_CurrentIsNoOp ==
    /\ (Done /\ entry.db.user_version = self.version) =>
          /\ NothingRan
          /\ db = entry.db
          /\ foreign_keys = entry.foreign_keys
          /\ result.type \in {"None", "IdError"}
          /\ result.type = "IdError" <=>
                (self.id # 0 /\ (entry.db.application_id = 0 \/ entry.db.application_id # self.id))
    /\ (Done /\ entry.calls > 0 /\ entry.result = NoExc) =>
          /\ result = NoExc
          /\ NothingRan
          /\ db = entry.db

\* C9's case: the second of two calls, after a first that created the database and
\* stamped the id, has returned.
C9_Witness ==
    /\ Returned
    /\ calls = 2
    /\ entry.result = NoExc
    /\ self.id # 0
    /\ "schema" \in db.tables

IsForeignKeysPragma(e) == e.op \in {ForeignKeysPragma(TRUE), ForeignKeysPragma(FALSE)}

\* C10: in every run of migrate the foreign_keys pragma is set only outside the
\* transaction: OFF first, then BEGIN, the transaction ends with COMMIT or
\* ROLLBACK, and only then foreign_keys is set back to the value it had on entry,
\* on every exit path.
C10_ForeignKeysOutsideTransaction ==
    LET n == Len(trace)
    IN  /\ \A i \in 1..n : IsForeignKeysPragma(trace[i]) => ~trace[i].txn
        /\ n >= 1 => trace[1].op = ForeignKeysPragma(FALSE)
        /\ n >= 2 => trace[2].op = "BEGIN"
        /\ \A i \in 1..n : (trace[i].op = "BEGIN" => i = 2)
        /\ \A i \in 1..n : (trace[i].op \in {"COMMIT", "ROLLBACK"} => (i >= 3 /\ i + 1 >= n))
        /\ \A i \in 2..n :
              IsForeignKeysPragma(trace[i]) =>
                 /\ i = n
                 /\ trace[i - 1].op \in {"COMMIT", "ROLLBACK"}
                 /\ trace[i].op = ForeignKeysPragma(entry.foreign_keys)
        /\ in_transaction => ~foreign_keys
        /\ pc \in {"check_id", "get_version", "dispatch", "create", "loop", "migration",
                   "foreign_key_check", "final_id", "ddl_exit"} <=> in_transaction
        /\ Done =>
              /\ n >= 4
              /\ IsForeignKeysPragma(trace[n])
              /\ foreign_keys = entry.foreign_keys
              /\ isolation_level = entry.isolation_level
              /\ ~in_transaction
        /\ pc \notin {"idle", "done"} => ENABLED Next

\* C10's case: migrate was entered with foreign keys ON, a migration raised, and
\* the pragma is ON again after the ROLLBACK.
C10_Witness ==
    /\ Done
    /\ entry.foreign_keys
    /\ foreign_keys
    /\ result.type = "Exception"
    /\ Ran("migration")
    /\ trace[Len(trace) - 1].op = "ROLLBACK"

\* ------------------------------------------------------ claims, factory

\* A call of op by thread t is the last thing that happened.
Called(op) == last.op = op

\* The caller is not the creating thread.
ByOther == last.thread # Creator

\* C11 (as stated): get() by a thread other than the creating one, called outside
\* every with block of that thread, raises UsageError, whether the thread never
\* entered a with block or entered one and left it.
C11_Original ==
    (Called("get") /\ ByOther /\ ~last.scoped) => last.exc.type = "UsageError"

\* A step that is a close() refused with UsageError.
RefusedClose ==
    /\ last'.op = "close"
    /\ last'.exc.type = "UsageError"

\* close() by a thread other than the creating one raises UsageError, inside a
\* with block or outside, before or after the thread had a connection.
C12_OthersRefused ==
    (Called("close") /\ ByOther) => last.exc.type = "UsageError"

\* C12 (as stated): close() by a thread other than the creating one always raises
\* UsageError, inside a with block or not, and closes no connection; close() by
\* the creating thread closes the main connection (it is closed afterwards).
C12_Original ==
    /\ [](C12_OthersRefused)
    /\ [][\A t \in Threads \ {Creator} : Close(t) => (RefusedClose /\ conns' = conns)]_vars
    /\ []((Called("close") /\ ~ByOther) => ~conns[main].open)

\* The part of C12 about the other threads.
C12_OthersCloseNothing ==
    /\ [](C12_OthersRefused)
    /\ [][\A t \in Threads \ {Creator} : Close(t) => (RefusedClose /\ conns' = conns)]_vars

\* The call is an acquisition: entering a with block, or get().
Acquisition == last.op \in {"__enter__", "get"}

\* On a private path get() by a thread other than the creating one raises
\* UsageError and returns nothing, inside a with block too.
C13_GetRejected ==
    (is_private(path) /\ Called("get") /\ ByOther) =>
        (last.exc.type = "UsageError" /\ last.ret = 0)

\* C13 (as stated): on a private path ("" or ":memory:") every acquisition by a
\* thread other than the creating one is rejected with UsageError and hands no
\* connection back, be it entering a with block or get() inside one; the
\* creating thread is never rejected.
C13_Original ==
    /\ (is_private(path) /\ Acquisition /\ ByOther) =>
           (last.exc.type = "UsageError" /\ last.ret = 0)
    /\ (is_private(path) /\ Acquisition /\ ~ByOther) =>
           (last.exc = NoExc /\ last.ret = main)

\* C14: connections are never shared between threads: the connection a thread
\* holds, and the one a call hands to it, was made by that thread's own
\* connect(), and no two threads hold the same connection object.
C14_NeverShared ==
    /\ \A t \in Threads : local[t] # 0 => conns[local[t]].thread = t
    /\ \A t, u \in Threads : (t # u /\ local[t] # 0) => local[t] # local[u]
    /\ last.ret # 0 => conns[last.ret].thread = last.thread

\* C14's case: every thread holds a connection and get() has just handed its
\* own to a thread other than the creating one.
C14_Witness ==
    /\ \A t \in Threads : local[t] # 0
    /\ Called("get")
    /\ ByOther
    /\ last.ret = local[last.thread]
    /\ last.ret # main

\* C15 (as stated): when a with block of the factory is left, the thread's
\* connection is closed on every way out: the body returned, the body raised,
\* before_close raised.
C15_Original ==
    Called("__exit__") => (last.conn # 0 /\ ~conns[last.conn].open)

\* The ways out on which the connection is closed: before_close raised nothing
\* that __exit__ lets through, whatever the body did.
C15_ClosedUnlessHookRaised ==
    (Called("__exit__") /\ last.exc = NoExc) => (last.conn # 0 /\ ~conns[last.conn].open)

\* The call released the thread's connection: the end of a with block, or a
\* close() that was not refused.
Released ==
    /\ last.op \in {"__exit__", "close"}
    /\ last.exc.type # "UsageError"

\* before_close raised and the release let nothing through.
Swallowed == last.hook_exc # NoExc /\ last.exc = NoExc

\* C16: on every release before_close is called with the thread's connection,
\* before that call closes it: the hook finds the connection as it was when the
\* release began, and a release that raises nothing leaves it closed. The
\* ProgrammingError "cannot operate on a closed database" raised by the hook is
\* swallowed and nothing else is, so close() by the creating thread is
\* idempotent: on a closed main connection it raises nothing and changes nothing.
C16_HookBeforeClose ==
    /\ Released =>
          /\ last.conn # 0
          /\ last.conn = local[last.thread]
          /\ last.hook_conn = last.conn
          /\ last.hook_open = last.was_open
          /\ last.exc \in {NoExc, last.hook_exc}
          /\ last.exc = NoExc => ~conns[last.conn].open
          /\ Swallowed <=> last.hook_exc = Raise("ProgrammingError", ClosedDatabaseMessage)
    /\ (Called("close") /\ ~ByOther /\ ~last.was_open) =>
          /\ last.exc = NoExc
          /\ ~conns[main].open

\* C16's case: the creating thread closes again after the main connection was
\* closed, the hook runs a statement on it, and the error is swallowed.
C16_Witness ==
    /\ Called("close")
    /\ ~ByOther
    /\ ~last.was_open
    /\ last.hook_conn = main
    /\ last.hook_exc = Raise("ProgrammingError", ClosedDatabaseMessage)
    /\ Swallowed
    /\ ~conns[main].open

\* --------------------------------------------------------- claims, store

\* The rows of the same entry before and after a step.
SameEntry(r, q) == r.feed = q.feed /\ r.id = q.id

\* The step is a call of op that raised nothing.
Written(op) == called'.op = op /\ called'.exc = NoExc

\* The entry a call names.
Key(call) == [feed |-> call.feed, id |-> call.name]

\* The step is a call that marked entry r with the flag of op.
Marked(op, r) ==
    /\ called'.op = op
    /\ called'.exc = NoExc
    /\ called'.feed = r.feed
    /\ called'.name = r.id

\* C17: read and important are changed only by mark_as_read_unread and
\* mark_as_important_unimportant. In every step an entry that stays keeps each
\* flag unless the step marks that entry with that flag; add_or_update_entry on
\* a stored (feed_url, id) leaves one row for it, with the flags it had (so
\* those of the last mark, false if it was never marked) and the updated newly
\* written; a new entry starts with both flags false.
C17_FlagsPersist ==
    [][/\ \A r \in entries : \A q \in entries' :
             SameEntry(r, q) =>
                /\ q.read # r.read => Marked("mark_as_read_unread", r)
                /\ q.important # r.important => Marked("mark_as_important_unimportant", r)
       /\ \A q \in entries' :
             (\A r \in entries : ~SameEntry(r, q)) => (~q.read /\ ~q.important)
       /\ Written("add_or_update_entry") =>
             \A updated \in Updateds :
                AddOrUpdateEntry(called'.feed, called'.name, updated) =>
                   /\ Cardinality({q \in entries' : SameEntry(q, Key(called'))}) = 1
                   /\ \A q \in entries' :
                         SameEntry(q, Key(called')) =>
                            /\ q.updated = updated
                            /\ \A r \in EntryRows(called'.feed, called'.name) :
                                  q.read = r.read /\ q.important = r.important
      ]_vars

\* C17's case: add_or_update_entry has just rewritten, with its own updated, an
\* entry that had been marked as read and as important, and both flags are set.
C17_Witness ==
    /\ called.op = "add_or_update_entry"
    /\ called.exc = NoExc
    /\ called.rows = RowCount
    /\ \E r \in entries :
          /\ r.feed = called.feed
          /\ r.id = called.name
          /\ r.read
          /\ r.important
          /\ r.updated = "2010-01-02"

\* What get_entries_for_update is to yield for one pair with the store as it is.
Yields(pair, e) ==
    IF \E r \in entries : r.feed = pair[1] /\ r.id = pair[2]
    THEN \E r \in entries : r.feed = pair[1] /\ r.id = pair[2] /\ e = EntryForUpdate(r.updated)
    ELSE e = None

\* C18: for every list of (feed_url, entry_id) pairs and every store content
\* get_entries_for_update returns a list of the same length whose i-th element
\* is EntryForUpdate(stored updated) if pair i is stored and the null marker
\* otherwise, whichever strategy ran, and on every list the single query and
\* the per-pair fallback return the same.
C18_SameLengthSameResults ==
    /\ called.op = "get_entries_for_update" =>
          /\ called.exc = NoExc
          /\ Len(called.ret) = Len(called.pairs)
          /\ \A i \in 1..Len(called.pairs) : Yields(called.pairs[i], called.ret[i])
    /\ \A pairs \in PairLists(MaxPairs) :
          get_entries_for_update_one_query(pairs) = get_entries_for_update_n_queries(pairs)

\* C18's case: asked about a stored pair and a missing one, in this order, with
\* too many variables for the single query, the fallback has returned the stored
\* updated and the null marker.
C18_Witness ==
    /\ called.op = "get_entries_for_update"
    /\ called.fallback
    /\ called.pairs = <<<<"feed", "one">>, <<"feed", "two">>>>
    /\ called.ret = <<EntryForUpdate("2010-01-01"), None>>
    /\ \E r \in entries : r.feed = "feed" /\ r.id = "one" /\ r.updated = "2010-01-01"
    /\ \A r \in entries : ~(r.feed = "feed" /\ r.id = "two")

\* C19: referential integrity is an invariant of the store: whatever add_feed,
\* remove_feed, add_or_update_entry, set_feed_metadata and delete_feed_metadata
\* did, every stored entry and every stored metadata item belongs to a stored
\* feed; remove_feed(F) removes F, all entries and all metadata of F, and
\* nothing that belongs to another feed.
C19_ReferentialIntegrity ==
    /\ [](/\ \A r \in entries : r.feed \in feeds
          /\ \A m \in metadata : m.feed \in feeds)
    /\ [][Written("remove_feed") =>
             /\ feeds' = feeds \ {called'.feed}
             /\ entries' = {r \in entries : r.feed # called'.feed}
             /\ metadata' = {m \in metadata : m.feed # called'.feed}
         ]_vars

\* C19's case: remove_feed has just removed a feed that had rows, none of them
\* is left, and the row of the other feed is still stored.
C19_Witness ==
    /\ called.op = "remove_feed"
    /\ called.exc = NoExc
    /\ called.feed \notin feeds
    /\ called.rows > RowCount
    /\ RowCount > 0
    /\ \A r \in entries \cup metadata : r.feed # called.feed /\ r.feed \in feeds

\* The (key, value) pairs that rows hold for (feed, key).
PairsFor(rows, feed, key) ==
    {<<m.key, m.value>> : m \in {x \in rows : x.feed = feed /\ x.key = key}}

\* The metadata rows other than the one of (feed, key).
OtherMetadata(rows, feed, key) == {m \in rows : ~(m.feed = feed /\ m.key = key)}

\* C20: set_feed_metadata is an idempotent upsert keyed by (feed_url, key):
\* after set_feed_metadata(F, K, V), however often it ran, iter_feed_metadata(F)
\* has exactly one pair for K, with the value written last, and the pairs of
\* other keys and other feeds are as before; writing the stored value again
\* changes nothing; delete_feed_metadata(F, K) removes that one pair only.
C20_MetadataUpsert ==
    /\ [](\A m, n \in metadata : (m.feed = n.feed /\ m.key = n.key) => m = n)
    /\ [][Written("set_feed_metadata") =>
             \A value \in MetadataValues :
                SetFeedMetadata(called'.feed, called'.name, value) =>
                   /\ PairsFor(metadata', called'.feed, called'.name)
                         = {<<called'.name, value>>}
                   /\ OtherMetadata(metadata', called'.feed, called'.name)
                         = OtherMetadata(metadata, called'.feed, called'.name)
                   /\ <<called'.name, value>> \in iter_feed_metadata(called'.feed)
                         => metadata' = metadata
         ]_vars
    /\ [][Written("delete_feed_metadata") =>
             /\ PairsFor(metadata', called'.feed, called'.name) = {}
             /\ OtherMetadata(metadata', called'.feed, called'.name)
                   = OtherMetadata(metadata, called'.feed, called'.name)
             /\ Cardinality(metadata') = Cardinality(metadata) - 1
         ]_vars

\* C20's case: set_feed_metadata has just written a key that was stored, next
\* to another key of the same feed: the feed has one pair for each, the new
\* value for the key written.
C20_Witness ==
    /\ called.op = "set_feed_metadata"
    /\ called.exc = NoExc
    /\ called.rows = RowCount
    /\ iter_feed_metadata(called.feed) \in
          {{<<called.name, "new-value">>, <<other, "value">>} :
              other \in MetadataKeys \ {called.name}}

\* ------------------------------------------------- claims, missing rows

\* The step changes no row of any table.
NothingWritten == UNCHANGED <<feeds, last_updated, entries, metadata>>

\* The step is a call of op.
Did(op) == called'.op = op

\* The step leaves every entry but the one the call names as it was, and leaves
\* one row for that one.
OneEntryUpdated ==
    /\ {r \in entries' : ~SameEntry(r, Key(called'))} = {r \in entries : ~SameEntry(r, Key(called'))}
    /\ Cardinality({r \in entries' : SameEntry(r, Key(called'))}) = 1
    /\ UNCHANGED <<feeds, last_updated, metadata>>

\* The step leaves every feed row but the one the call names as it was.
OneFeedUpdated ==
    /\ \A u \in feeds \ {called'.feed} : last_updated'[u] = last_updated[u]
    /\ called'.feed \in feeds'
    /\ UNCHANGED <<feeds, entries, metadata>>

\* The step leaves every metadata row but the one the call names as it was;
\* rows is the number of rows it leaves for the pair the call names.
OneMetadataWritten(rows) ==
    /\ OtherMetadata(metadata', called'.feed, called'.name)
          = OtherMetadata(metadata, called'.feed, called'.name)
    /\ Cardinality(PairsFor(metadata', called'.feed, called'.name)) = rows
    /\ UNCHANGED <<feeds, last_updated, entries>>

\* C21: a mutation on a row that is not stored raises the matching not-found
\* error and changes nothing: update_feed and set_feed_metadata on an unknown
\* feed raise FeedNotFoundError, the two marks on an unknown entry raise
\* EntryNotFoundError, delete_feed_metadata on an absent key raises
\* MetadataNotFoundError. When the row is stored the call raises nothing and
\* writes that one row only.
C21_MissingRowNotFound ==
    [][/\ Did("update_feed") =>
             IF called'.feed \in feeds
             THEN called'.exc = NoExc /\ OneFeedUpdated
             ELSE called'.exc = Raise("FeedNotFoundError", <<called'.feed>>) /\ NothingWritten
       /\ Did("set_feed_metadata") =>
             IF called'.feed \in feeds
             THEN called'.exc = NoExc /\ OneMetadataWritten(1)
             ELSE called'.exc = Raise("FeedNotFoundError", <<called'.feed>>) /\ NothingWritten
       /\ (Did("mark_as_read_unread") \/ Did("mark_as_important_unimportant")) =>
             IF \E r \in entries : SameEntry(r, Key(called'))
             THEN called'.exc = NoExc /\ OneEntryUpdated
             ELSE /\ called'.exc = Raise("EntryNotFoundError", <<called'.feed, called'.name>>)
                  /\ NothingWritten
       /\ Did("delete_feed_metadata") =>
             IF \E r \in metadata : r.feed = called'.feed /\ r.key = called'.name
             THEN called'.exc = NoExc /\ OneMetadataWritten(0)
             ELSE /\ called'.exc = Raise("MetadataNotFoundError", <<called'.feed, called'.name>>)
                  /\ NothingWritten
      ]_vars

\* C21's case: update_feed on a feed that is not stored has raised
\* FeedNotFoundError while another feed, updated before, and rows of the two
\* other tables are stored.
C21_Witness ==
    /\ called.op = "update_feed"
    /\ called.exc = Raise("FeedNotFoundError", <<called.feed>>)
    /\ called.feed \notin feeds
    /\ \E u \in feeds : last_updated[u] # "None"
    /\ entries # {}
    /\ metadata # {}

\* --------------------------------------------------------- wrap_exceptions

\* The classes of the exceptions raised: each one's base class. sqlite3's are
\* Error, under it InterfaceError and DatabaseError, and under DatabaseError
\* the rest; sqlite3's IntegrityError is written with its module, the other
\* IntegrityError being the DBError.
BaseOf(type) ==
    CASE type \in {"OperationalError", "ProgrammingError", "sqlite3.IntegrityError",
                   "NotSupportedError"} -> "DatabaseError"
      [] type \in {"DatabaseError", "InterfaceError"} -> "sqlite3.Error"
      [] type \in {"SchemaVersionError", "IntegrityError", "RequirementError", "IdError",
                   "UsageError"} -> "DBError"
      [] type \in {"sqlite3.Error", "DBError", "ValueError", "StorageError",
                   "SearchError"} -> "Exception"
      [] OTHER -> "object"

\* isinstance(e, cls), which is what an except clause tests.
RECURSIVE IsInstance(_, _)
IsInstance(type, cls) ==
    IF type = cls THEN TRUE
    ELSE IF BaseOf(type) = "object" THEN FALSE
    ELSE IsInstance(BaseOf(type), cls)

\* An exception object: obj tells the object raised inside the block from one
\* made by the handler; cause is __cause__ (NoExc for None).
Object(type, msg, cause, obj) == [type |-> type, msg |-> msg, cause |-> cause, obj |-> obj]

\* No exception.
NoObject == Object("None", <<>>, NoExc, "none")

\* raise exc_type(message) from cause
RaiseFrom(exc_type, message, cause) == Object(exc_type, message, cause, "handler")

\* "cannot operate on a closed database" in str(e).lower()
closed_database_in(e) ==
    Contains(<<"cannot", "operate", "on", "a", "closed", "database">>, Lower(Str(e)))

\* The test of the last clause with isinstance in place of type(e) is.
file_is_not_a_database_Subclasses(e) ==
    /\ IsInstance(e.type, "DatabaseError")
    /\ Contains(<<"file", "is", "not", "a", "database">>, Lower(Str(e)))

\* type(e) is sqlite3.DatabaseError and "file is not a database" in str(e).lower()
file_is_not_a_database(e) ==
    /\ e.type = "DatabaseError"
    /\ Contains(<<"file", "is", "not", "a", "database">>, Lower(Str(e)))

\* The closed-database error raised with the message of the handler.
closed_database_error_Configured(exc_type, message) == RaiseFrom(exc_type, message, NoExc)

\* raise exc_type("operation on closed database") from None
closed_database_error(exc_type, message) ==
    RaiseFrom(exc_type, <<"operation", "on", "closed", "database">>, NoExc)

\* The conversion with the original exception dropped.
converted_NoCause(exc_type, message, e) == RaiseFrom(exc_type, message, NoExc)

\* raise exc_type(message) from e
converted(exc_type, message, e) == RaiseFrom(exc_type, message, e)

\* with wrap_exceptions(exc_type, message): what leaves the block when e is
\* raised inside it. The except clauses are tried in their order; a bare raise
\* lets the object caught go on.
wrap_exceptions(exc_type, message, e) ==
    IF IsInstance(e.type, "OperationalError") THEN converted(exc_type, message, e)
    ELSE IF IsInstance(e.type, "ProgrammingError")
         THEN IF closed_database_in(e) THEN closed_database_error(exc_type, message) ELSE e
    ELSE IF IsInstance(e.type, "DatabaseError")
         THEN IF file_is_not_a_database(e) THEN converted(exc_type, message, e) ELSE e
    ELSE e

\* The message wrap_exceptions has when none is given.
DefaultMessage == <<"unexpected", "error">>

\* The handlers set up: the exception types and the messages.
ExcTypes == {"StorageError", "SearchError"}

Messages == {DefaultMessage, <<"whatever">>}

\* The classes of the exceptions raised in the block: sqlite3's and others.
RaisedTypes ==
    {"OperationalError", "ProgrammingError", "DatabaseError", "sqlite3.IntegrityError",
     "NotSupportedError", "InterfaceError", "sqlite3.Error", "ValueError"}

\* Their messages: the two the handler looks for, as sqlite3 writes them and in
\* another case, and others.
RaisedMessages ==
    {ClosedDatabaseMessage,
     <<"cannot", "operate", "on", "a", "closed", "database">>,
     <<"file", "is", "not", "a", "database">>,
     <<"File", "is", "not", "a", "database">>,
     <<"database", "is", "locked">>,
     <<"SQL", "statements", "in", "progress">>,
     <<"closed", "database">>}

\* The exceptions raised in the block.
RaisedObjects == {Object(type, msg, NoExc, "body") : type \in RaisedTypes, msg \in RaisedMessages}

\* A with block under wrap_exceptions(exc_type, message) whose body raises e
\* (NoObject: the body returns).
WithBlock(exc_type, message, e) ==
    /\ block' = [op |-> "wrap_exceptions", exc_type |-> exc_type, message |-> message]
    /\ raised' = e
    /\ propagated' = wrap_exceptions(exc_type, message, e)
    /\ UNCHANGED nonwrap

\* db_errors
db_errors == {"DBError", "SchemaVersionError", "IntegrityError", "RequirementError"}

\* The classes of DBError the module defines.
DBErrorTypes == db_errors \cup {"IdError", "UsageError"}

\* The exceptions open_db may raise: the DBErrors, and what sqlite3 raises.
OpenDbObjects ==
    {Object(type, <<"whatever">>, NoExc, "body") : type \in DBErrorTypes} \cup RaisedObjects

\* A clause that caught the classes listed in db_errors and no subclass of them.
is_db_error_Listed(e) == e.type \in db_errors

\* except DBError
is_db_error(e) == IsInstance(e.type, "DBError")

\* Storage(path): what it raises when open_db raises e. A DBError becomes a
\* StorageError with its text; the rest goes through the handler every method
\* of Storage has.
storage_init(e) ==
    IF is_db_error(e) THEN RaiseFrom("StorageError", Str(e), NoExc)
    ELSE wrap_exceptions("StorageError", DefaultMessage, e)

\* Storage(path) with an open_db that raises e (NoObject: it returns).
OpenStorage(e) ==
    /\ block' = [op |-> "Storage", exc_type |-> "StorageError", message |-> DefaultMessage]
    /\ raised' = e
    /\ propagated' = storage_init(e)
    /\ UNCHANGED nonwrap

WrapInit ==
    /\ MigrationIdle
    /\ FactoryIdle
    /\ StoreIdle
    /\ WrapIdle
    /\ LockIdle
    /\ PageIdle
    /\ SetupIdle
    /\ FancyIdle
    /\ PoolIdle

WrapNext ==
    \/ \E exc_type \in ExcTypes, message \in Messages, e \in RaisedObjects \cup {NoObject} :
          WithBlock(exc_type, message, e)
    \/ \E e \in OpenDbObjects \cup {NoObject} : OpenStorage(e)

WrapSpec == WrapInit /\ [][WrapNext]_vars

\* ------------------------------------------------ claims, wrap_exceptions

\* The messages raised that say the database is closed, in either case.
ClosedDatabaseTexts ==
    {<<"Cannot", "operate", "on", "a", "closed", "database", ".">>,
     <<"cannot", "operate", "on", "a", "closed", "database">>}

\* The messages raised that say the file is not a database, in either case.
NotADatabaseTexts ==
    {<<"file", "is", "not", "a", "database">>, <<"File", "is", "not", "a", "database">>}

\* A with block under wrap_exceptions has ended.
Wrapped == block.op = "wrap_exceptions"

\* What left the block is an exception the handler made, of its exception type.
Converted ==
    /\ Wrapped
    /\ propagated.obj = "handler"
    /\ propagated.type = block.exc_type

\* The three kinds of exception raised in the block.
Operational == raised.type = "OperationalError"

ClosedDatabase == raised.type = "ProgrammingError" /\ raised.msg \in ClosedDatabaseTexts

NotADatabase == raised.type = "DatabaseError" /\ raised.msg \in NotADatabaseTexts

\* C23 as written: every exception the handler made carries the exception
\* raised in the block as its cause, whichever of the three kinds that was.
C23_Original == Converted => propagated.cause = raised

\* C23: the exception made for an OperationalError and the one made for a
\* DatabaseError "file is not a database" carry the exception raised in the
\* block as their cause; the one made for the closed-database ProgrammingError
\* has no cause.
C23_CauseUnlessClosed ==
    Wrapped =>
       /\ Operational \/ NotADatabase => Converted /\ propagated.cause = raised
       /\ ClosedDatabase => Converted /\ propagated.cause = NoExc

\* C23's case: an OperationalError was raised in the block and what left it is
\* the handler's exception with that OperationalError as its cause.
C23_Witness ==
    /\ Converted
    /\ Operational
    /\ propagated.cause = raised
    /\ propagated.cause.msg = <<"database", "is", "locked">>

\* C24: a ProgrammingError that says "cannot operate on a closed database", in
\* either case, leaves the block as the handler's exception type with the
\* message "operation on closed database", whatever message the handler has.
C24_FixedMessage ==
    Wrapped /\ ClosedDatabase =>
       /\ Converted
       /\ propagated.msg = <<"operation", "on", "closed", "database">>

\* C24's case: the handler has a message of its own, sqlite3's closed-database
\* ProgrammingError was raised, and the fixed message left the block.
C24_Witness ==
    /\ Wrapped
    /\ block.message = <<"whatever">>
    /\ raised.type = "ProgrammingError"
    /\ raised.msg = <<"Cannot", "operate", "on", "a", "closed", "database", ".">>
    /\ propagated.type = block.exc_type
    /\ propagated.msg = <<"operation", "on", "closed", "database">>

\* C25: the handler converts the three kinds and nothing else: every other
\* exception raised in the block (another ProgrammingError, another
\* DatabaseError or a subclass of it even with "file is not a database", an
\* exception that is not sqlite3's) leaves it as the object it was.
C25_ThreeKindsOnly ==
    Wrapped =>
       IF Operational \/ ClosedDatabase \/ NotADatabase
       THEN Converted
       ELSE propagated = raised

\* C25's case: sqlite3's IntegrityError saying "file is not a database" was
\* raised in the block and left it as the same object.
C25_Witness ==
    /\ Wrapped
    /\ raised.type = "sqlite3.IntegrityError"
    /\ raised.msg = <<"file", "is", "not", "a", "database">>
    /\ propagated = raised
    /\ propagated.obj = "body"

\* Storage(path) has ended.
Opened == block.op = "Storage"

\* The exception raised by open_db is a DBError, of some class of the module.
RaisedDBError ==
    raised.type \in {"DBError", "SchemaVersionError", "IntegrityError", "RequirementError",
                     "IdError", "UsageError"}

\* C26: a DBError raised while the database is opened and set up, of whichever
\* class of the module, leaves Storage(path) as a StorageError, never as the
\* DBError it was.
C26_DBErrorsWrapped ==
    Opened /\ RaisedDBError =>
       /\ propagated.type = "StorageError"
       /\ propagated # raised

\* C26's case: open_db raised IdError, which db_errors does not list, and a
\* StorageError left Storage(path).
C26_Witness ==
    /\ Opened
    /\ raised.type = "IdError"
    /\ propagated.type = "StorageError"
    /\ propagated.obj = "handler"

\* ------------------------------------------------------ a locked database

\* PRAGMA busy_timeout = 0: a statement that finds the database locked does not wait.
BusyTimeout == 0

\* The calls tried on a locked database, and of each whether its statements
\* only read.
StorageOps ==
    {"init", "add_feed", "remove_feed", "get_feeds", "get_feeds_for_update",
     "get_entries_for_update", "set_feed_user_title", "mark_as_stale",
     "mark_as_read_unread", "update_feed", "update_feed_last_updated",
     "add_or_update_entry", "add_or_update_entries", "get_entries_chunk_size_0",
     "get_entries_chunk_size_1", "iter_feed_metadata", "set_feed_metadata",
     "delete_feed_metadata"}

ReadOps ==
    {"init", "get_feeds", "get_feeds_for_update", "get_entries_for_update",
     "get_entries_chunk_size_0", "get_entries_chunk_size_1", "iter_feed_metadata"}

\* What the engine raises when a call runs its statements: with a rollback
\* journal an EXCLUSIVE transaction keeps every other connection out; in WAL
\* mode it keeps the writers out and lets the readers in.
engine_raises(op) ==
    IF exclusive /\ BusyTimeout = 0 /\ (journal_mode = "delete" \/ op \notin ReadOps)
    THEN Object("OperationalError", <<"database", "is", "locked">>, NoExc, "body")
    ELSE NoObject

\* A Storage method that lets the engine's exception through.
storage_call_raises_Unwrapped(e) == e

\* with wrap_exceptions(StorageError) around every method of Storage
storage_call_raises(e) == wrap_exceptions("StorageError", DefaultMessage, e)

\* The other thread: BEGIN EXCLUSIVE, on a database no call is using.
BeginExclusive ==
    /\ ~exclusive
    /\ exclusive' = TRUE
    /\ UNCHANGED journal_mode
    /\ UNCHANGED nonlock

\* The other thread: ROLLBACK.
Rollback ==
    /\ exclusive
    /\ exclusive' = FALSE
    /\ UNCHANGED journal_mode
    /\ UNCHANGED nonlock

\* setup_db(..., wal_enabled=...): PRAGMA journal_mode = WAL or DELETE, on a
\* database that is not locked; wal_enabled None leaves the mode.
SetJournalMode(wal_enabled) ==
    /\ ~exclusive
    /\ journal_mode' = (IF wal_enabled THEN "wal" ELSE "delete")
    /\ UNCHANGED exclusive
    /\ UNCHANGED nonlock

\* A call whose statement finds the database locked: it raises and writes nothing.
Refused(op, feed) ==
    /\ engine_raises(op) # NoObject
    /\ called' = StorageCall(op, feed, "",
                             IF op = "init" THEN storage_init(engine_raises(op))
                             ELSE storage_call_raises(engine_raises(op)))
    /\ UNCHANGED <<feeds, last_updated, entries, metadata>>
    /\ UNCHANGED nonstore

\* A call that only reads, or writes what the model does not keep, and returns.
Answered(op, feed) ==
    /\ called' = StorageCall(op, feed, "", NoExc)
    /\ UNCHANGED <<feeds, last_updated, entries, metadata>>
    /\ UNCHANGED nonstore

\* A call whose statements run.
Admitted(op, feed) ==
    /\ engine_raises(op) = NoObject
    /\ CASE op = "add_feed" -> AddFeed(feed)
         [] op = "remove_feed" -> RemoveFeed(feed)
         [] op = "add_or_update_entry" -> AddOrUpdateEntry(feed, "one", "2010-01-02")
         [] op = "mark_as_read_unread" -> MarkAsReadUnread(feed, "one", TRUE)
         [] op = "update_feed" -> UpdateFeed(feed, "2010-01-01")
         [] op = "set_feed_metadata" -> SetFeedMetadata(feed, "key", "value")
         [] op = "delete_feed_metadata" -> DeleteFeedMetadata(feed, "key")
         [] OTHER -> Answered(op, feed)

LockedInit ==
    /\ MigrationIdle
    /\ FactoryIdle
    /\ StoreIdle
    /\ WrapIdle
    /\ LockIdle
    /\ PageIdle
    /\ SetupIdle
    /\ FancyIdle
    /\ PoolIdle

LockedNext ==
    \/ BeginExclusive
    \/ Rollback
    \/ \E wal_enabled \in BOOLEAN : SetJournalMode(wal_enabled)
    \/ \E op \in StorageOps, feed \in FeedUrls : Refused(op, feed)
    \/ \E op \in StorageOps, feed \in FeedUrls : Admitted(op, feed)

LockedSpec == LockedInit /\ [][LockedNext]_vars

\* ----------------------------------------------- claims, locked database

\* The step is a call on the store.
Calls == called' # called

\* The call of the step raised StorageError whose cause is the engine's
\* OperationalError saying the database is locked.
RaisedLocked ==
    /\ called'.exc.type = "StorageError"
    /\ called'.exc.cause.type = "OperationalError"
    /\ Contains(<<"locked">>, called'.exc.cause.msg)

\* C22 as written: while another connection is inside BEGIN EXCLUSIVE and
\* busy_timeout is 0, every call on the store raises StorageError whose cause
\* is the engine's "locked" OperationalError.
C22_Original == [][exclusive /\ Calls => RaisedLocked]_vars

\* C22: while another connection is inside BEGIN EXCLUSIVE and busy_timeout is
\* 0, every call on a database with a rollback journal, and every call that
\* writes on a database in WAL mode, raises StorageError whose cause is the
\* engine's "locked" OperationalError, and leaves every row as it was.
C22_LockedRaisesStorageError ==
    [][exclusive /\ Calls /\ (journal_mode = "delete" \/ called'.op \notin ReadOps) =>
          RaisedLocked /\ NothingWritten]_vars

\* C22's case: with a feed, an entry and a pair stored and the database locked
\* by the other connection, draining get_entries(chunk_size=1) has raised
\* StorageError caused by the "locked" OperationalError.
C22_Witness ==
    /\ exclusive
    /\ journal_mode = "delete"
    /\ feeds # {}
    /\ entries # {}
    /\ metadata # {}
    /\ called.op = "get_entries_chunk_size_1"
    /\ called.exc.type = "StorageError"
    /\ called.exc.cause.type = "OperationalError"
    /\ called.exc.cause.msg = <<"database", "is", "locked">>

\* ----------------------------------------------------- join_paginated_iter

\* The most things the page function draws from.
MaxItems == 3

\* last = None
NoneCursor == 0

\* The chunk sizes tried: none, and from one thing to one more than there are.
ChunkSizes == 0..(MaxItems + 1)

Min(a, b) == IF a < b THEN a ELSE b

\* get_things(chunk_size, last): the things after last in their order, all of
\* them for chunk_size 0 and chunk_size of them at most otherwise; thing i has
\* the cursor i.
get_things(k, after) ==
    [i \in 1..(IF k = 0 THEN source - after ELSE Min(k, source - after)) |-> after + i]

\* The page is read row by row while its things are yielded, whatever chunk_size.
consumed_lazily_Always(k) == TRUE

\* The page is read whole before a thing is yielded, whatever chunk_size.
consumed_lazily_Never(k) == FALSE

\* if not chunk_size: yield from (t for t, _ in things), with no list(things)
consumed_lazily(k) == k = 0

\* The cursor is not taken from the page: the one passed before stays.
next_last_Stale(page) == last_cursor

\* The cursor kept is the one of the first thing of the page.
next_last_First(page) == page[1]

\* _, last = things[-1]
next_last(page) == page[Len(page)]

\* A short page is not taken for the last one.
short_page_Never(len, k) == FALSE

\* if len(things) < chunk_size: break
short_page(len, k) == len < k

\* The generator runs up to its next yield with things of the page in hand left:
\* the next of them is yielded.
YieldNext ==
    /\ yielded' = Append(yielded, Head(things))
    /\ things' = Tail(things)
    /\ gen' = "suspended"
    /\ UNCHANGED <<last_cursor, things_len, cursor_open, page_calls>>

\* things = get_things(chunk_size, last), and what follows it up to the first
\* yield or the break.
PageCall ==
    LET page == get_things(chunk_size, last_cursor)
    IN  /\ page_calls' = Append(page_calls, <<chunk_size, last_cursor>>)
        /\ things_len' = Len(page)
        /\ IF page = <<>>
           THEN /\ gen' = "done"
                /\ cursor_open' = FALSE
                /\ UNCHANGED <<things, last_cursor, yielded>>
           ELSE /\ gen' = "suspended"
                /\ cursor_open' = consumed_lazily(chunk_size)
                /\ last_cursor' = (IF consumed_lazily(chunk_size) THEN last_cursor
                                   ELSE next_last(page))
                /\ yielded' = Append(yielded, page[1])
                /\ things' = Tail(page)

\* The break: the generator returns.
Break ==
    /\ gen' = "done"
    /\ cursor_open' = FALSE
    /\ UNCHANGED <<last_cursor, things, things_len, yielded, page_calls>>

\* next(rv): the consumer asks for one more thing and the generator runs up to
\* its next yield or its end.
NextItem ==
    /\ gen # "done"
    /\ Len(yielded) <= MaxItems + MaxItems
    /\ IF things # <<>> THEN YieldNext
       ELSE IF gen = "created" THEN PageCall
       ELSE IF chunk_size = 0 \/ short_page(things_len, chunk_size) THEN Break
       ELSE PageCall
    /\ UNCHANGED <<source, chunk_size, writer>>
    /\ UNCHANGED nonpage

\* Another connection with timeout 0 writes: with a rollback journal it is
\* locked out while a statement of this connection is open.
Write ==
    /\ writer' = [outcome |-> IF cursor_open /\ journal_mode = "delete" THEN "locked" ELSE "ok",
                  after |-> Len(yielded)]
    /\ UNCHANGED <<source, chunk_size, gen, last_cursor, things, things_len, cursor_open,
                   yielded, page_calls>>
    /\ UNCHANGED nonpage

\* A generator just made, over some number of things with some chunk size.
PageInit ==
    /\ MigrationIdle
    /\ FactoryIdle
    /\ StoreIdle
    /\ WrapIdle
    /\ LockIdle
    /\ source \in 0..MaxItems
    /\ chunk_size \in ChunkSizes
    /\ gen = "created"
    /\ last_cursor = NoneCursor
    /\ things = <<>>
    /\ things_len = 0
    /\ cursor_open = FALSE
    /\ yielded = <<>>
    /\ page_calls = <<>>
    /\ writer = [outcome |-> "none", after |-> 0]
    /\ SetupIdle
    /\ FancyIdle
    /\ PoolIdle

PageNext ==
    \/ NextItem
    \/ Write

PageSpec == PageInit /\ [][PageNext]_vars

\* The consumer drains the generator: it goes on asking while there may be more.
DrainSpec == PageSpec /\ WF_vars(NextItem)

\* ------------------------------------------- claims, join_paginated_iter

\* The things yielded so far are the first ones of the source, each once, in order.
InOrder ==
    /\ Len(yielded) <= source
    /\ \A i \in 1..Len(yielded) : yielded[i] = i

\* C27: with chunk_size k > 0 over N things in their order, the generator
\* yields exactly the N things, each once, in order: at any moment what it has
\* yielded is the beginning of the order, and when it is done it has yielded
\* all N; so for k = 1, N - 1, N, N + 1 and for N = 0.
C27_AllOnceInOrder ==
    chunk_size > 0 =>
       /\ InOrder
       /\ gen = "done" => Len(yielded) = source

\* C27's case: three things in pages of two have been yielded in order and the
\* generator is done.
C27_Witness ==
    /\ chunk_size = 2
    /\ source = 3
    /\ gen = "done"
    /\ yielded = <<1, 2, 3>>

\* C28: with chunk_size k > 0 the generator ends; once a page came with fewer
\* than k things (or none) the page function is not called again; a generator
\* that is done has called it floor(N / k) + 1 times.
C28_StopsAfterShortPage ==
    /\ [](chunk_size > 0 /\ gen = "done" => Len(page_calls) = (source \div chunk_size) + 1)
    /\ [][chunk_size > 0 /\ page_calls' # page_calls =>
             page_calls = <<>> \/ things_len = chunk_size]_vars
    /\ (chunk_size > 0 => <>(gen = "done"))

\* C28's case: two things in pages of two: a full page, then an empty one, and
\* the generator is done after two calls.
C28_Witness ==
    /\ chunk_size = 2
    /\ source = 2
    /\ gen = "done"
    /\ page_calls = <<<<2, 0>>, <<2, 2>>>>
    /\ yielded = <<1, 2>>

\* C29: with chunk_size 0 the page function is called once, as
\* get_things(0, None); the generator yields every thing in order and stops;
\* the page is read as it is consumed, its statement open from the first thing
\* asked for until the generator is done.
C29_OneLazyPage ==
    chunk_size = 0 =>
       /\ InOrder
       /\ gen = "created" => page_calls = <<>> /\ ~cursor_open
       /\ gen # "created" => page_calls = <<<<0, NoneCursor>>>>
       /\ gen = "suspended" => cursor_open
       /\ gen = "done" => Len(yielded) = source /\ ~cursor_open

\* C29's case: with chunk_size 0 the consumer has taken the first of three
\* things, the statement is open, and a writer with timeout 0 was locked out.
C29_Witness ==
    /\ chunk_size = 0
    /\ source = 3
    /\ gen = "suspended"
    /\ yielded = <<1>>
    /\ cursor_open
    /\ writer = [outcome |-> "locked", after |-> 1]

\* C30: with chunk_size > 0 a page is in hand whole before any of its things is
\* yielded and the page function is called only when the consumer asks beyond
\* the page in hand; whenever the generator is suspended no statement is open,
\* so a writer with timeout 0 is never locked out.
C30_PagesFetchedWhole ==
    [][chunk_size > 0 =>
          /\ ~cursor_open'
          /\ writer'.outcome # "locked"
          /\ page_calls' # page_calls =>
                /\ things = <<>>
                /\ gen' = "suspended" => Len(things') + 1 = things_len'
      ]_vars

\* C30's case: with chunk_size 1 the consumer has taken only the first of three
\* things and a writer with timeout 0 has then succeeded.
C30_Witness ==
    /\ chunk_size = 1
    /\ source = 3
    /\ gen = "suspended"
    /\ yielded = <<1>>
    /\ ~cursor_open
    /\ writer = [outcome |-> "ok", after |-> 1]

\* ------------------------------------------------ claims, scoped reuse

\* The last call was an __enter__ by a thread that was inside a with block of
\* the factory already.
NestedEnter == last.op = "__enter__" /\ last.scoped

\* The last call was an __exit__ that left its thread inside an enclosing with
\* block of the factory.
InnerExit == last.op = "__exit__" /\ depth[last.thread] > 0

\* C34: a nested scoped acquisition in the same thread returns the connection
\* of the enclosing one and opens none, and the exit of the inner with block
\* closes that connection, so that the enclosing block goes on with a closed
\* connection.
C34_Original ==
    /\ NestedEnter => last.ret = last.conn /\ ~last.connected
    /\ InnerExit => last.conn = local[last.thread] /\ ~conns[last.conn].open

\* What the code does for C34: the inner exit closes the connection unless
\* before_close raised something other than the closed-database error.
C34_InnerExitClosesUnlessHookRaised ==
    /\ NestedEnter => last.ret = last.conn /\ ~last.connected
    /\ InnerExit =>
          /\ last.conn = local[last.thread]
          /\ last.exc = NoExc => ~conns[last.conn].open

\* C36: every scoped acquisition returns an open connection, also when its
\* thread has entered and left a with block of the factory before.
C36_Original == last.op = "__enter__" => conns[last.ret].open

\* What the code does for C36: an __enter__ that connects returns an open
\* connection; one that finds a connection in _local returns it as it is.
C36_OpenWhenConnected ==
    last.op = "__enter__" =>
       /\ last.connected => conns[last.ret].open
       /\ ~last.connected => last.ret = last.conn /\ conns[last.ret].open = last.was_open

\* The cursor of the last thing of the page that call i of the page function returned.
LastOfPage(i) ==
    LET page == get_things(page_calls[i][1], page_calls[i][2])
    IN  page[Len(page)]

\* C35: with chunk_size > 0 the first call of the page function gets the cursor
\* None and every later call gets the cursor of the last thing of the page just
\* before it; the cursor passed grows from call to call, so it never repeats
\* or goes back.
C35_CursorAdvances ==
    chunk_size > 0 =>
       \A i \in 1..Len(page_calls) :
          /\ page_calls[i][1] = chunk_size
          /\ i = 1 => page_calls[i][2] = NoneCursor
          /\ i > 1 => /\ page_calls[i][2] = LastOfPage(i - 1)
                      /\ page_calls[i][2] > page_calls[i - 1][2]

\* C35's case: three things in pages of one: the page function was called with
\* None and then with the cursor of each thing in turn.
C35_Witness ==
    /\ chunk_size = 1
    /\ source = 3
    /\ page_calls = <<<<1, NoneCursor>>, <<1, 1>>, <<1, 2>>, <<1, 3>>>>

\* ------------------------------------------------------------- setup_db

\* The most functions setup_db() is asked to require.
MaxNames == 2

\* FUNCTION_TESTS: the functions that have a test statement, in sorted order.
FUNCTION_TESTS == <<"json", "json_array_length", "json_each", "json_group_array", "json_object">>

\* The functions required in the runs: two with a test, one without.
RequiredNames == {"json", "json_each", "soundex"}

\* The lists of at most n of them.
RECURSIVE NameLists(_)
NameLists(n) ==
    IF n = 0 THEN {<<>>}
    ELSE NameLists(n - 1) \cup
         {Append(names, name) : names \in {l \in NameLists(n - 1) : Len(l) = n - 1},
                                name \in RequiredNames}

\* What a test statement may do: run, fail for want of the function, fail
\* for another reason.
ProbeResults == {"ok", "no such function", "locked"}

\* list(cursor.execute(sql)): the OperationalError it raises, if any.
probe_raises(name) ==
    CASE probes[name] = "ok" -> NoExc
      [] probes[name] = "no such function" ->
            Raise("OperationalError", <<"no", "such", "function", ":", name>>)
      [] OTHER -> Raise("OperationalError", <<"database", "is", "locked">>)

\* The versions SELECT sqlite_version() answers with, "3.8.11" and so on, and
\* the minimum versions asked for.
SqliteVersions ==
    {<<<<3>>, <<8>>, <<1, 1>>>>, <<<<3>>, <<1, 5>>, <<0>>>>, <<<<3>>, <<3, 1>>, <<1>>>>}

MinimumVersions == {<<3, 15>>, <<3, 15, 0>>, <<3, 18, 1>>}

\* int(i) of a string of digits.
RECURSIVE int(_)
int(digits) ==
    IF Len(digits) = 0 THEN 0
    ELSE 10 * int(SubSeq(digits, 1, Len(digits) - 1)) + digits[Len(digits)]

\* tuple(int(i) for i in version.split('.'))
version_ints(parts) == [i \in 1..Len(parts) |-> int(parts[i])]

\* a > b on tuples of integers, as Python compares tuples.
RECURSIVE tuple_gt(_, _)
tuple_gt(a, b) ==
    IF Len(a) = 0 THEN FALSE
    ELSE IF Len(b) = 0 THEN TRUE
    ELSE IF Head(a) # Head(b) THEN Head(a) > Head(b)
    ELSE tuple_gt(Tail(a), Tail(b))

\* str(i) of a number, digit by digit.
RECURSIVE str_int(_)
str_int(n) == IF n < 10 THEN <<Dec(n)>> ELSE str_int(n \div 10) \o <<Dec(n % 10)>>

\* ".".join(str(i) for i in ints)
RECURSIVE dotted(_)
dotted(ints) ==
    IF Len(ints) = 0 THEN <<>>
    ELSE IF Len(ints) = 1 THEN str_int(ints[1])
    ELSE str_int(ints[1]) \o <<".">> \o dotted(Tail(ints))

\* require_version(db, version_info): what it raises.
require_version(version_info) ==
    IF tuple_gt(version_info, version_ints(sqlite_version))
    THEN Raise("RequirementError",
               <<"at least SQLite version ">> \o dotted(version_info) \o <<" required, ">>
                  \o dotted(version_ints(sqlite_version)) \o <<" installed">>)
    ELSE NoExc

\* sorted(missing)
sorted(names) == SelectSeq(FUNCTION_TESTS, LAMBDA name : name \in names)

\* The functions found missing up to the first one of them.
RECURSIVE missing_functions_First(_)
missing_functions_First(names) ==
    IF names = <<>> THEN {}
    ELSE IF Contains(<<"no", "such">>, Str(probe_raises(Head(names)))) THEN {Head(names)}
    ELSE missing_functions_First(Tail(names))

\* missing: the names whose test statement raised OperationalError "no such ...".
RECURSIVE missing_functions(_)
missing_functions(names) ==
    IF names = <<>> THEN {}
    ELSE (IF Contains(<<"no", "such">>, Str(probe_raises(Head(names)))) THEN {Head(names)} ELSE {})
         \cup missing_functions(Tail(names))

\* The for loop of require_functions: what it raises at the first name that
\* has no test or whose test statement fails for another reason.
RECURSIVE loop_raises(_)
loop_raises(names) ==
    IF names = <<>> THEN NoExc
    ELSE IF \A i \in 1..Len(FUNCTION_TESTS) : FUNCTION_TESTS[i] # Head(names)
         THEN Raise("ValueError", <<"no test for function: ", Head(names)>>)
    ELSE IF probe_raises(Head(names)) # NoExc
            /\ ~Contains(<<"no", "such">>, Str(probe_raises(Head(names))))
         THEN probe_raises(Head(names))
    ELSE loop_raises(Tail(names))

\* require_functions(db, names): what it raises.
require_functions(names) ==
    IF loop_raises(names) # NoExc THEN loop_raises(names)
    ELSE IF missing_functions(names) # {}
         THEN Raise("RequirementError",
                    <<"required SQLite functions missing: ">> \o sorted(missing_functions(names)))
    ELSE NoExc

\* setup_db(db, ...) is called.
SetupDb ==
    /\ setup_pc = "idle"
    /\ setup_pc' = "require_version"
    /\ UNCHANGED <<sqlite_version, minimum_sqlite_version, required_sqlite_functions, probes,
                   setup_wal, setup_exc>>
    /\ UNCHANGED nonsetup

\* require_version(db, minimum_sqlite_version)
RequireVersion ==
    /\ setup_pc = "require_version"
    /\ setup_exc' = require_version(minimum_sqlite_version)
    /\ setup_pc' = (IF require_version(minimum_sqlite_version) = NoExc
                    THEN "require_functions" ELSE "raised")
    /\ UNCHANGED <<sqlite_version, minimum_sqlite_version, required_sqlite_functions, probes,
                   setup_wal>>
    /\ UNCHANGED nonsetup

\* require_functions(db, required_sqlite_functions)
RequireFunctions ==
    /\ setup_pc = "require_functions"
    /\ setup_exc' = require_functions(required_sqlite_functions)
    /\ setup_pc' = (IF require_functions(required_sqlite_functions) = NoExc
                    THEN "pragmas" ELSE "raised")
    /\ UNCHANGED <<sqlite_version, minimum_sqlite_version, required_sqlite_functions, probes,
                   setup_wal>>
    /\ UNCHANGED nonsetup

\* PRAGMA foreign_keys = ON, and PRAGMA journal_mode when wal_enabled is not None.
Pragmas ==
    /\ setup_pc = "pragmas"
    /\ foreign_keys' = SetForeignKeys(TRUE)
    /\ journal_mode' = (CASE setup_wal = "True" -> "wal"
                          [] setup_wal = "False" -> "delete"
                          [] OTHER -> journal_mode)
    /\ setup_pc' = "migrate"
    /\ UNCHANGED <<sqlite_version, minimum_sqlite_version, required_sqlite_functions, probes,
                   setup_wal, setup_exc>>
    /\ UNCHANGED <<db, in_transaction, isolation_level, journal, self, pc, id, version,
                   from_version, saved_fk, saved_isolation, exc, result, calls, entry, trace>>
    /\ UNCHANGED exclusive
    /\ UNCHANGED <<factoryvars, storevars, wrapvars, pagevars, fancyvars, poolvars>>

\* migration.migrate(db): the call; what it does then is the first part.
MigrateCall ==
    /\ setup_pc = "migrate"
    /\ Migrate

\* A connection just made, some engine, some requirements.
SetupInit ==
    /\ MigrationIdle
    /\ FactoryIdle
    /\ StoreIdle
    /\ WrapIdle
    /\ LockIdle
    /\ PageIdle
    /\ sqlite_version \in SqliteVersions
    /\ minimum_sqlite_version \in MinimumVersions
    /\ required_sqlite_functions \in NameLists(MaxNames)
    /\ probes \in [{"json", "json_each"} -> ProbeResults]
    /\ setup_wal \in {"None", "True", "False"}
    /\ setup_pc = "idle"
    /\ setup_exc = NoExc
    /\ FancyIdle
    /\ PoolIdle

SetupNext ==
    \/ SetupDb
    \/ RequireVersion
    \/ RequireFunctions
    \/ Pragmas
    \/ MigrateCall

SetupSpec == SetupInit /\ [][SetupNext]_vars

\* ------------------------------------------------------ claims, setup_db

\* The installed version is lower than the minimum, as tuples of integers: at
\* the first place they differ the installed one is smaller, or it ends there.
TooLow ==
    LET have == version_ints(sqlite_version)
        want == minimum_sqlite_version
    IN  \E i \in 1..Len(want) :
           /\ \A j \in 1..(i - 1) : j <= Len(have) /\ have[j] = want[j]
           /\ i > Len(have) \/ have[i] < want[i]

\* The required functions.
Required == {required_sqlite_functions[i] : i \in 1..Len(required_sqlite_functions)}

\* The required functions the engine does not have.
Missing == {name \in Required \cap DOMAIN probes : probes[name] = "no such function"}

\* Every required function has a test statement and none of the statements
\* fails for another reason than the want of the function.
Testable ==
    \A name \in Required : name \in DOMAIN probes /\ probes[name] # "locked"

\* The two checks of setup_db() are over.
ChecksDone == setup_pc \in {"raised", "pragmas", "migrate"}

\* setup_db() has set no pragma, created nothing and run no migration.
Untouched == MigrationIdle /\ LockIdle

\* The functions the message of the exception names.
Named == {setup_exc.msg[i] : i \in 2..Len(setup_exc.msg)}

\* C32 as written: if the installed version is lower than the minimum or a
\* required function is missing, setup_db() raises RequirementError, naming
\* all the missing functions when it is about them, and has touched nothing.
C32_Original ==
    ChecksDone /\ (TooLow \/ Missing # {}) =>
       /\ setup_exc.type = "RequirementError"
       /\ ~TooLow => Named = Missing
       /\ Untouched

\* C32: setup_db() checks the requirements before it touches the database. A
\* version lower than the minimum raises RequirementError; with the version
\* high enough, missing functions raise RequirementError naming all of them,
\* sorted, provided every required function has a test statement and no test
\* statement fails for another reason (it raises ValueError or the engine's
\* OperationalError otherwise); whenever it raises in the checks, no pragma
\* was set, nothing was created and no migration ran, and the pragmas are
\* set only when neither check found anything.
C32_RequirementsFirst ==
    ChecksDone =>
       /\ TooLow => setup_exc.type = "RequirementError" /\ setup_pc = "raised"
       /\ ~TooLow /\ Missing # {} /\ Testable =>
             /\ setup_exc.type = "RequirementError"
             /\ setup_pc = "raised"
             /\ Named = Missing
             /\ \A i \in 2..Len(setup_exc.msg) : \A j \in 2..Len(setup_exc.msg) :
                   i < j =>
                      \E m \in 1..Len(FUNCTION_TESTS) : \E n \in 1..Len(FUNCTION_TESTS) :
                         /\ m < n
                         /\ FUNCTION_TESTS[m] = setup_exc.msg[i]
                         /\ FUNCTION_TESTS[n] = setup_exc.msg[j]
       /\ setup_pc = "raised" => setup_exc # NoExc /\ Untouched
       /\ setup_pc # "raised" => ~TooLow /\ Missing = {} /\ setup_exc = NoExc

\* C32's case: the version is high enough, both required functions are
\* missing, and setup_db(), asked to enable WAL, has raised RequirementError
\* naming the two in sorted order with no pragma set.
C32_Witness ==
    /\ setup_pc = "raised"
    /\ required_sqlite_functions = <<"json_each", "json">>
    /\ setup_wal = "True"
    /\ setup_exc = Raise("RequirementError",
                         <<"required SQLite functions missing: ", "json", "json_each">>)
    /\ ~foreign_keys
    /\ journal_mode = "delete"
    /\ calls = 0

\* ====================================================== FancyExceptionMixin
\*
\* An exception e built on FancyExceptionMixin: its args as Exception.__str__
\* prints them, its instance __dict__ (the message given to __init__ and what
\* the two cached properties have stored) and its __cause__. A string is a
\* sequence of pieces, '' is <<"">> and None is <<>>.

PyNone == <<>>

\* bool(x) of an optional string: filter(None, parts) keeps these.
Truthy(x) == x # PyNone /\ x # <<"">>

\* The messages given to __init__, the args as a string, and the causes: a
\* cause has the module and the qualified name of its type and its str().
FancyMessages == {PyNone, <<"">>, <<"while updating">>}

FancyArgs == {<<"">>, <<"feed not found">>}

FancyCauses ==
    {[module |-> "sqlite3", qualname |-> "OperationalError", str |-> <<"database is locked">>],
     [module |-> "builtins", qualname |-> "ValueError", str |-> <<"">>],
     [module |-> "builtins", qualname |-> "OSError", str |-> <<"disk full">>]}

\* FancyExceptionMixin(*args, message=message): message is stored on the
\* instance only if it is true, the class attribute is None.
FancyExceptionMixin(args, message) ==
    [args |-> args,
     dict |-> IF Truthy(message) THEN ("message" :> message) ELSE <<>>,
     cause |-> PyNone]

\* self.message: the instance attribute, or the class attribute None.
message_of(e) ==
    IF "message" \in DOMAIN e.dict THEN e.dict["message"] ELSE PyNone

\* The body of __cause_name: module.qualname of the type of __cause__.
cause_name(e) ==
    IF e.cause = PyNone THEN PyNone
    ELSE <<e.cause.module, ".", e.cause.qualname>>

\* The body of __cause_str.
cause_str(e) ==
    IF e.cause = PyNone THEN PyNone ELSE e.cause.str

\* cached_property: the value stored in the instance __dict__ under the
\* property's name if there is one, else the body's value.
cached_property(e, name, value) ==
    IF name \in DOMAIN e.dict THEN e.dict[name] ELSE value

\* The instance after __str__ has read the two cached properties: each has
\* stored its value, None included, unless one was stored already.
primed(e) ==
    [e EXCEPT !.dict =
        ("__cause_name" :> cached_property(e, "__cause_name", cause_name(e)))
        @@ ("__cause_str" :> cached_property(e, "__cause_str", cause_str(e)))
        @@ e.dict]

\* ': '.join(parts)
RECURSIVE join(_)
join(parts) ==
    IF parts = <<>> THEN <<"">>
    ELSE IF Len(parts) = 1 THEN parts[1]
    ELSE parts[1] \o <<": ">> \o join(Tail(parts))

\* __str__
fancy_str(e) ==
    LET parts == <<message_of(e), e.args,
                   cached_property(e, "__cause_name", cause_name(e)),
                   cached_property(e, "__cause_str", cause_str(e))>>
    IN  join(SelectSeq(parts, Truthy))

\* pickle.loads(pickle.dumps(self)): __reduce__ primes the cached properties
\* and gives the type, the args and the instance __dict__; the copy is built
\* from the args, gets the __dict__ and has no __cause__.
loads_dumps(e) ==
    [args |-> e.args, dict |-> primed(e).dict, cause |-> PyNone]

\* str(e)
StrCall ==
    /\ rendered' = [of |-> "e", text |-> fancy_str(fancy)]
    /\ fancy' = primed(fancy)
    /\ UNCHANGED <<unpickled, pickled_str, nonfancy>>

\* raise e from cause, or from None
RaiseFromCause ==
    \E cause \in FancyCauses \cup {PyNone} :
       /\ fancy.cause # cause
       /\ fancy' = [fancy EXCEPT !.cause = cause]
       /\ rendered' = [of |-> "none", text |-> <<>>]
       /\ UNCHANGED <<unpickled, pickled_str, nonfancy>>

\* copy = pickle.loads(pickle.dumps(e)), str(e) taken just before
PickleRoundTrip ==
    /\ unpickled = <<>>
    /\ pickled_str' = fancy_str(fancy)
    /\ fancy' = primed(fancy)
    /\ unpickled' = <<loads_dumps(fancy)>>
    /\ rendered' = [of |-> "none", text |-> <<>>]
    /\ UNCHANGED nonfancy

\* str(copy)
StrCopy ==
    /\ unpickled # <<>>
    /\ rendered' = [of |-> "copy", text |-> fancy_str(unpickled[1])]
    /\ unpickled' = <<primed(unpickled[1])>>
    /\ UNCHANGED <<fancy, pickled_str, nonfancy>>

FancyInit ==
    /\ MigrationIdle
    /\ FactoryIdle
    /\ StoreIdle
    /\ WrapIdle
    /\ LockIdle
    /\ PageIdle
    /\ SetupIdle
    /\ \E args \in FancyArgs : \E message \in FancyMessages :
          fancy = FancyExceptionMixin(args, message)
    /\ unpickled = <<>>
    /\ rendered = [of |-> "none", text |-> <<>>]
    /\ pickled_str = <<>>
    /\ PoolIdle

FancyNext ==
    \/ StrCall
    \/ RaiseFromCause
    \/ PickleRoundTrip
    \/ StrCopy

FancySpec == FancyInit /\ [][FancyNext]_vars

\* ------------------------------------------- claims, FancyExceptionMixin

\* "<message>: <own string>: <cause type>: <cause string>" of e with the
\* cause it has now, empty parts left out.
Expected ==
    LET name == IF fancy.cause = PyNone THEN PyNone
                ELSE <<fancy.cause.module, ".", fancy.cause.qualname>>
        text == IF fancy.cause = PyNone THEN PyNone ELSE fancy.cause.str
        kept == SelectSeq(<<message_of(fancy), fancy.args, name, text>>,
                          LAMBDA part : part # <<>> /\ part # <<"">>)
    IN  join(kept)

\* C33 as written: str(e) of an exception that has a cause is "<message>:
\* <own string>: <cause type>: <cause string>" with the cause attached to e,
\* whenever str(e) was first called, and str() of the unpickled copy is
\* str(e) before the round trip.
C33_Original ==
    /\ rendered.of = "e" /\ fancy.cause # PyNone => rendered.text = Expected
    /\ rendered.of = "copy" => rendered.text = pickled_str

\* What str(e) gives: the format holds for the cause, or the want of one,
\* that e had when str(e) or pickle first looked at it, which is what the two
\* cached properties stored; the copy prints the same text as e did before
\* the round trip.
C33_CauseAsFirstRendered ==
    /\ rendered.of = "e" =>
          /\ {"__cause_name", "__cause_str"} \subseteq DOMAIN fancy.dict
          /\ rendered.text =
                join(SelectSeq(<<message_of(fancy), fancy.args,
                                 fancy.dict["__cause_name"], fancy.dict["__cause_str"]>>,
                               LAMBDA part : part # <<>> /\ part # <<"">>))
          /\ fancy.dict["__cause_str"] = cause_str(fancy) => rendered.text = Expected
    /\ rendered.of = "copy" => rendered.text = pickled_str

\* str(e) was called before the cause was attached, and str(e) called again
\* does not show the cause.
C33_StaleCause ==
    /\ rendered.of = "e"
    /\ fancy.cause # PyNone
    /\ fancy.dict["__cause_name"] = PyNone
    /\ rendered.text = <<"while updating", ": ", "feed not found">>

\* ================================================ make_pool_map, wrap_map
\*
\* with make_pool_map(workers) as map: for rv in map(func, iterable): ...
\* The threads are the consumer, which runs the with block and the body of
\* the wrapper generator, and the threads of multiprocessing.dummy.Pool: the
\* task handler, which iterates what imap_unordered() was given and puts the
\* tasks on the inqueue, the workers, which call func, and the worker
\* handler, which lets the pool finish once it is closed and no job is
\* left. A worker's result goes straight to the result iterator here; in the
\* pool it passes through the outqueue and the result handler thread, which
\* does nothing else and ends with the task handler.

MaxSource == 3

MaxWorkers == 2

\* for _ in range(workers): how many times the first loop puts.
initial_puts_Extra(n) == n + 1

initial_puts(n) == n

\* What the wrapper gives map() to iterate: iter(queue.get, sentinel).
map_iterable_Source == "source"

map_iterable == "queue"

\* How many results were yielded.
RECURSIVE Total(_, _)
Total(f, n) == IF n = 0 THEN 0 ELSE f[n] + Total(f, n - 1)

Yielded == Total(yields, iterable)

\* next(iterable, sentinel) by a thread: the next item, or the sentinel 0.
next_item == IF pulled < iterable THEN pulled + 1 ELSE 0

Pulled(thread) ==
    /\ pulled' = IF pulled < iterable THEN pulled + 1 ELSE pulled
    /\ pullers' = pullers \cup {thread}

\* IMapUnorderedIterator._set() and _set_length(): the job leaves the cache
\* when as many results have come as there are tasks.
job_done(i, n) == i = n

\* The consumer's first next() on the generator starts its body.
Start ==
    /\ context = "body"
    /\ wrapper_pc = "created"
    /\ patience > 0
    /\ wrapper_pc' = "fill"
    /\ UNCHANGED <<iterable, workers, raises_on, patience, pulled, queue, filled, rv,
                   taskqueue, task_handler, made, inqueue, worker, items, index, length,
                   cached, pool_state, worker_handler, context, pullers, applied, yields,
                   nonpool>>

\* for _ in range(workers): queue.put(next(iterable, sentinel))
Fill ==
    /\ wrapper_pc = "fill"
    /\ filled < initial_puts(workers)
    /\ queue' = Append(queue, next_item)
    /\ Pulled("consumer")
    /\ filled' = filled + 1
    /\ UNCHANGED <<iterable, workers, raises_on, patience, wrapper_pc, rv, taskqueue,
                   task_handler, made, inqueue, worker, items, index, length, cached,
                   pool_state, worker_handler, context, applied, yields, nonpool>>

\* map(func, iter(queue.get, sentinel)): imap_unordered() registers the job
\* and hands the task generator to the task handler.
Map ==
    /\ wrapper_pc = "fill"
    /\ filled = initial_puts(workers)
    /\ taskqueue' = Append(taskqueue, "job")
    /\ cached' = TRUE
    /\ wrapper_pc' = "next"
    /\ UNCHANGED <<iterable, workers, raises_on, patience, pulled, queue, filled, rv,
                   task_handler, made, inqueue, worker, items, index, length, pool_state,
                   worker_handler, context, pullers, applied, yields, nonpool>>

\* for rv in map(...): next() of the result iterator gives a result, or
\* raises what func raised, which ends the generator.
NextResult ==
    /\ wrapper_pc = "next"
    /\ items # <<>>
    /\ items' = Tail(items)
    /\ IF Head(items)[1]
       THEN rv' = Head(items)[2] /\ wrapper_pc' = "put"
       ELSE rv' = rv /\ wrapper_pc' = "raised"
    /\ UNCHANGED <<iterable, workers, raises_on, patience, pulled, queue, filled,
                   taskqueue, task_handler, made, inqueue, worker, index, length, cached,
                   pool_state, worker_handler, context, pullers, applied, yields, nonpool>>

\* next() of the result iterator when all the results were given.
StopIteration ==
    /\ wrapper_pc = "next"
    /\ items = <<>>
    /\ index = length
    /\ wrapper_pc' = "done"
    /\ UNCHANGED <<iterable, workers, raises_on, patience, pulled, queue, filled, rv,
                   taskqueue, task_handler, made, inqueue, worker, items, index, length,
                   cached, pool_state, worker_handler, context, pullers, applied, yields,
                   nonpool>>

\* queue.put(next(iterable, sentinel)) in the loop body
Put ==
    /\ wrapper_pc = "put"
    /\ queue' = Append(queue, next_item)
    /\ Pulled("consumer")
    /\ wrapper_pc' = "yield"
    /\ UNCHANGED <<iterable, workers, raises_on, patience, filled, rv, taskqueue,
                   task_handler, made, inqueue, worker, items, index, length, cached,
                   pool_state, worker_handler, context, applied, yields, nonpool>>

\* yield rv: the consumer has the result, and asks for the next one unless it
\* has had enough.
Yield ==
    /\ wrapper_pc = "yield"
    /\ yields' = [yields EXCEPT ![rv] = @ + 1]
    /\ wrapper_pc' = IF Yielded + 1 < patience THEN "next" ELSE "stopped"
    /\ UNCHANGED <<iterable, workers, raises_on, patience, pulled, queue, filled, rv,
                   taskqueue, task_handler, made, inqueue, worker, items, index, length,
                   cached, pool_state, worker_handler, context, pullers, applied, nonpool>>

\* The with block ends: the loop is over, was left early, or func's
\* exception leaves the block.
Leave ==
    /\ context = "body"
    /\ \/ wrapper_pc \in {"done", "raised", "stopped"}
       \/ wrapper_pc = "created" /\ patience = 0
    /\ context' = "close"
    /\ UNCHANGED <<iterable, workers, raises_on, patience, pulled, queue, wrapper_pc,
                   filled, rv, taskqueue, task_handler, made, inqueue, worker, items,
                   index, length, cached, pool_state, worker_handler, pullers, applied,
                   yields, nonpool>>

\* pool.close()
PoolClose ==
    /\ context = "close"
    /\ pool_state' = "CLOSE"
    /\ context' = "join"
    /\ UNCHANGED <<iterable, workers, raises_on, patience, pulled, queue, wrapper_pc,
                   filled, rv, taskqueue, task_handler, made, inqueue, worker, items,
                   index, length, cached, worker_handler, pullers, applied, yields,
                   nonpool>>

\* pool.join() returns: the worker handler, the task handler and the workers
\* have ended.
PoolJoin ==
    /\ context = "join"
    /\ worker_handler = "exited"
    /\ task_handler = "exited"
    /\ \A w \in 1..workers : worker[w] = -1
    /\ context' = "left"
    /\ UNCHANGED <<iterable, workers, raises_on, patience, pulled, queue, wrapper_pc,
                   filled, rv, taskqueue, task_handler, made, inqueue, worker, items,
                   index, length, cached, pool_state, worker_handler, pullers, applied,
                   yields, nonpool>>

\* The worker handler ends when the pool is closed and the cache is empty,
\* and tells the task handler.
WorkerHandlerExit ==
    /\ worker_handler = "alive"
    /\ pool_state = "CLOSE"
    /\ ~cached
    /\ worker_handler' = "exited"
    /\ taskqueue' = Append(taskqueue, "None")
    /\ UNCHANGED <<iterable, workers, raises_on, patience, pulled, queue, wrapper_pc,
                   filled, rv, task_handler, made, inqueue, worker, items, index, length,
                   cached, pool_state, context, pullers, applied, yields, nonpool>>

\* The task handler takes a job from the taskqueue, or None: then it tells
\* every worker to end and ends.
TaskHandlerGet ==
    /\ task_handler = "taskqueue"
    /\ taskqueue # <<>>
    /\ taskqueue' = Tail(taskqueue)
    /\ IF Head(taskqueue) = "job"
       THEN /\ task_handler' = "taskseq"
            /\ made' = 0
            /\ inqueue' = inqueue
       ELSE /\ task_handler' = "exited"
            /\ made' = made
            /\ inqueue' = inqueue \o [w \in 1..workers |-> 0]
    /\ UNCHANGED <<iterable, workers, raises_on, patience, pulled, queue, wrapper_pc,
                   filled, rv, worker, items, index, length, cached, pool_state,
                   worker_handler, context, pullers, applied, yields, nonpool>>

\* The task handler takes the next thing of what map() was given, blocking in
\* queue.get() while the queue is empty, and puts the task on the inqueue;
\* at the sentinel the tasks are over and the iterator learns its length.
TaskHandlerNext ==
    /\ task_handler = "taskseq"
    /\ map_iterable = "queue" => queue # <<>>
    /\ LET x == IF map_iterable = "queue" THEN Head(queue) ELSE next_item
       IN  /\ IF map_iterable = "queue"
              THEN queue' = Tail(queue) /\ UNCHANGED <<pulled, pullers>>
              ELSE queue' = queue /\ Pulled("task handler")
           /\ IF x = 0
              THEN /\ length' = made
                   /\ cached' = (cached /\ ~job_done(index, made))
                   /\ task_handler' = "taskqueue"
                   /\ UNCHANGED <<inqueue, made>>
              ELSE /\ inqueue' = Append(inqueue, x)
                   /\ made' = made + 1
                   /\ UNCHANGED <<length, cached, task_handler>>
    /\ UNCHANGED <<iterable, workers, raises_on, patience, wrapper_pc, filled, rv,
                   taskqueue, worker, items, index, pool_state, worker_handler, context,
                   applied, yields, nonpool>>

\* worker(): task = get(); None ends the worker.
WorkerGet(w) ==
    /\ worker[w] = 0
    /\ inqueue # <<>>
    /\ inqueue' = Tail(inqueue)
    /\ worker' = [worker EXCEPT ![w] = IF Head(inqueue) = 0 THEN -1 ELSE Head(inqueue)]
    /\ UNCHANGED <<iterable, workers, raises_on, patience, pulled, queue, wrapper_pc,
                   filled, rv, taskqueue, task_handler, made, items, index, length, cached,
                   pool_state, worker_handler, context, pullers, applied, yields, nonpool>>

\* worker(): result = (True, func(x)), or (False, e) if func raised; the
\* result reaches the iterator.
WorkerRun(w) ==
    /\ worker[w] > 0
    /\ applied' = [applied EXCEPT ![worker[w]] = @ + 1]
    /\ items' = Append(items, <<worker[w] # raises_on, worker[w]>>)
    /\ index' = index + 1
    /\ cached' = (cached /\ ~job_done(index + 1, length))
    /\ worker' = [worker EXCEPT ![w] = 0]
    /\ UNCHANGED <<iterable, workers, raises_on, patience, pulled, queue, wrapper_pc,
                   filled, rv, taskqueue, task_handler, made, inqueue, length, pool_state,
                   worker_handler, context, pullers, yields, nonpool>>

\* with make_pool_map(workers) as map: the pool is running, the generator of
\* map(func, iterable) is made and not started.
PoolInit ==
    /\ MigrationIdle
    /\ FactoryIdle
    /\ StoreIdle
    /\ WrapIdle
    /\ LockIdle
    /\ PageIdle
    /\ SetupIdle
    /\ FancyIdle
    /\ iterable \in 0..MaxSource
    /\ workers \in 1..MaxWorkers
    /\ raises_on \in 0..iterable
    /\ patience \in 0..(iterable + 1)
    /\ pulled = 0
    /\ queue = <<>>
    /\ wrapper_pc = "created"
    /\ filled = 0
    /\ rv = 0
    /\ taskqueue = <<>>
    /\ task_handler = "taskqueue"
    /\ made = 0
    /\ inqueue = <<>>
    /\ worker = [w \in 1..workers |-> 0]
    /\ items = <<>>
    /\ index = 0
    /\ length = -1
    /\ cached = FALSE
    /\ pool_state = "RUN"
    /\ worker_handler = "alive"
    /\ context = "body"
    /\ pullers = {}
    /\ applied = [i \in 1..iterable |-> 0]
    /\ yields = [i \in 1..iterable |-> 0]

PoolNext ==
    \/ Start
    \/ Fill
    \/ Map
    \/ NextResult
    \/ StopIteration
    \/ Put
    \/ Yield
    \/ Leave
    \/ PoolClose
    \/ PoolJoin
    \/ WorkerHandlerExit
    \/ TaskHandlerGet
    \/ TaskHandlerNext
    \/ \E w \in 1..workers : WorkerGet(w)
    \/ \E w \in 1..workers : WorkerRun(w)

PoolSpec == PoolInit /\ [][PoolNext]_vars

\* Every thread that can run does run in the end.
PoolLiveSpec == PoolSpec /\ WF_vars(PoolNext)

\* ------------------------------------------ claims, make_pool_map, wrap_map

\* The items that wait in a queue.
ItemsIn(q) == {q[k] : k \in 1..Len(q)} \ {0}

\* C31: every next() on the source iterable is executed by the thread that
\* consumes the results of the map, never by a thread of the pool; the pool
\* gets only items that were pulled already, through the queue: the tasks
\* made and the items waiting in the queue are the items pulled, and what a
\* worker holds or the inqueue has is among the tasks made.
C31_SourcePulledByConsumer ==
    /\ pullers \subseteq {"consumer"}
    /\ made + Cardinality(ItemsIn(queue)) = pulled
    /\ ItemsIn(queue) = (made + 1)..pulled
    /\ ItemsIn(inqueue) \subseteq 1..made
    /\ \A w \in 1..workers : worker[w] > 0 => worker[w] \in 1..made

\* C31's case: the consumer has pulled three items, the task handler has
\* taken them from the queue, a worker has done with the first and the two
\* workers are in func with the others.
C31_Witness ==
    /\ pullers = {"consumer"}
    /\ pulled = 3
    /\ made = 3
    /\ queue = <<>>
    /\ worker = <<3, 2>>

\* func never raises and the consumer iterates to the end.
NeverRaises == raises_on = 0

ToTheEnd == patience = iterable + 1

\* The results the generator has got from the pool.
Received == Yielded + (IF wrapper_pc \in {"put", "yield"} THEN 1 ELSE 0)

\* Every item was passed to func once and every result yielded once.
AllOnce == \A i \in 1..iterable : applied[i] = 1 /\ yields[i] = 1

\* C37 as written: for a source of N items, W workers and a func that never
\* raises, the generator passes every item to func exactly once, yields N
\* results and ends, for every N, and never more than W items are pulled
\* without their result yielded.
C37_Original ==
    /\ [](NeverRaises /\ ToTheEnd =>
             /\ \A i \in 1..iterable : applied[i] <= 1 /\ yields[i] <= 1
             /\ wrapper_pc = "done" => AllOnce /\ Yielded = iterable
             /\ pulled - Yielded <= workers)
    /\ NeverRaises /\ ToTheEnd => <>(wrapper_pc = "done")

\* C37: for a source of N items, W workers, a func that never raises and a
\* consumer that iterates to the end, the generator passes every item to func
\* exactly once, yields N results and ends, for every N; never more than W
\* items are pulled without their result received from the pool, and never
\* more than W + 1 without their result yielded: the generator pulls the
\* next item before it yields the result it holds.
C37_AllOnceThenEnds ==
    /\ [](NeverRaises /\ ToTheEnd =>
             /\ \A i \in 1..iterable : applied[i] <= 1 /\ yields[i] <= 1
             /\ wrapper_pc = "done" => AllOnce /\ Yielded = iterable
             /\ pulled - Received <= workers
             /\ pulled - Yielded <= workers + 1)
    /\ NeverRaises /\ ToTheEnd => <>(wrapper_pc = "done")

\* C37's case: three items and two workers, the generator has ended with
\* every result yielded once.
C37_Witness ==
    /\ iterable = 3
    /\ workers = 2
    /\ NeverRaises
    /\ ToTheEnd
    /\ wrapper_pc = "done"
    /\ AllOnce

\* Fewer items than workers, none included: the generator ends as well.
C37_FewerThanWorkers ==
    /\ iterable < workers
    /\ wrapper_pc = "done"
    /\ AllOnce

\* The generator holds a result and has pulled the next item: W + 1 items
\* are pulled and none is yielded.
C37_OneMore ==
    /\ wrapper_pc = "yield"
    /\ pulled - Yielded = workers + 1

\* C38 as written: leaving the with block of make_pool_map always completes,
\* pool.close() and pool.join() return, also when func raised or the
\* consumer stopped early.
C38_Original == (context = "close") ~> (context = "left")

\* The sentinel was put on the queue: the source was exhausted by the
\* generator.
SentinelPut == length # -1 \/ \E k \in 1..Len(queue) : queue[k] = 0

\* Leaving the with block completes when the generator was never started or
\* has put the sentinel, whatever func did.
C38_LeavesOnceExhausted ==
    (context = "close" /\ (wrapper_pc = "created" \/ SentinelPut)) ~> (context = "left")

\* Without the sentinel put, pool.join() stays blocked: the task handler
\* waits in queue.get() and the job stays in the cache.
C38_BlockedInJoin ==
    [](context = "join" /\ wrapper_pc # "created" /\ ~SentinelPut =>
          [](context = "join" /\ task_handler = "taskseq" /\ cached))

====
